---- MODULE Spec2Model ----
(***************************************************************************)
(* A model of @moon7/result: the Result / Maybe / AsyncResult values, the  *)
(* type guards, the combinators, the collection aggregators and the        *)
(* matchers.                                                               *)
(*                                                                         *)
(* Objects live in a heap (a sequence; a reference is an index), so that   *)
(* "the same instance" is equality of references.  Every library function  *)
(* is an operator from a heap and its arguments to an Eval record: the     *)
(* heap after the call, the outcome (returned or thrown value), the user   *)
(* callbacks it invoked, in order, and the number of array elements it     *)
(* inspected.  An action is one call by user code; it stores the call in   *)
(* `last`; `allocs` counts the objects the calls have allocated.           *)
(***************************************************************************)
EXTENDS Integers, Sequences, FiniteSets, TLC

VARIABLES heap, last, allocs

vars == <<heap, last, allocs>>

----------------------------------------------------------------------------
(* Bounds *)

\* objects the calls of one behaviour may allocate on top of the initial heap
MaxAlloc == 2

\* longest array handed to all / any
MaxLen == 3

----------------------------------------------------------------------------
(* JavaScript values.  Every value is a record of the same shape.          *)

Undefined == [t |-> "undefined", n |-> 0, s |-> ""]

Null == [t |-> "null", n |-> 0, s |-> ""]

Num(k) == [t |-> "number", n |-> k, s |-> ""]

Str(x) == [t |-> "string", n |-> 0, s |-> x]

Bool(b) == [t |-> "boolean", n |-> IF b THEN 1 ELSE 0, s |-> ""]

\* a reference to heap[i]
Ref(i) == [t |-> "ref", n |-> i, s |-> ""]

\* the TypeError the engine raises for `k in primitive` or `null.k`
TypeError == [t |-> "error", n |-> 0, s |-> "TypeError"]

Range(q) == {q[i] : i \in 1..Len(q)}

\* the primitive payloads user code passes around
Primitives == {Undefined, Null, Num(0), Num(42), Str(""), Str("x"), Bool(FALSE), Bool(TRUE)}

----------------------------------------------------------------------------
(* Heap objects.  `keys` are the own properties present; an absent         *)
(* property reads as undefined.                                            *)

Object(keys, value, error, status) ==
    [kind |-> "object", keys |-> keys, value |-> value, error |-> error,
     status |-> status, elems |-> <<>>, state |-> "", follows |-> 0,
     cont |-> "", aux |-> Undefined]

Array(elems) ==
    [kind |-> "array", keys |-> {"length"}, value |-> Undefined, error |-> Undefined,
     status |-> Undefined, elems |-> elems, state |-> "", follows |-> 0,
     cont |-> "", aux |-> Undefined]

Function ==
    [kind |-> "function", keys |-> {"length", "name"}, value |-> Undefined,
     error |-> Undefined, status |-> Undefined, elems |-> <<>>, state |-> "", follows |-> 0,
     cont |-> "", aux |-> Undefined]

\* a promise: state pending | fulfilled | rejected, settled value in `value`,
\* and the promise it was resolved with (0: none), which it adopts
Promise(state, value, follows) ==
    [kind |-> "promise", keys |-> {}, value |-> value, error |-> Undefined,
     status |-> Undefined, elems |-> <<>>, state |-> state, follows |-> follows,
     cont |-> IF follows # 0 THEN "adopt" ELSE "", aux |-> Undefined]

\* a pending promise whose settling waits in the code named by `cont`: on the
\* promise heap[follows], or (follows = 0) on the plain value `awaited`; `aux`
\* is the value that code has captured
Awaiting(cont, follows, awaited, aux) ==
    [kind |-> "promise", keys |-> {}, value |-> awaited, error |-> Undefined,
     status |-> Undefined, elems |-> <<>>, state |-> "pending", follows |-> follows,
     cont |-> cont, aux |-> aux]

\* a function the library returns: `cont` names its code, and it has captured
\* either a user callback (a stub: mode in `state`, value in `aux`) or the
\* promise heap[follows] it resolves
Closure(cont, follows, stub) ==
    [kind |-> "function", keys |-> {"length", "name"}, value |-> Undefined,
     error |-> Undefined, status |-> Undefined, elems |-> <<>>, state |-> stub.mode,
     follows |-> follows, cont |-> cont, aux |-> stub.val]

\* an Error object with the given message
Error(message) == [t |-> "error", n |-> 0, s |-> message]

Refs(h) == {Ref(i) : i \in 1..Len(h)}

\* typeof x
TypeOf(h, x) ==
    IF x.t = "ref"
    THEN IF h[x.n].kind = "function" THEN "function" ELSE "object"
    ELSE IF x.t = "null" THEN "object" ELSE x.t

\* x != null  (loose: false for null and undefined)
NotNullish(x) == x.t \notin {"null", "undefined"}

\* x.k
Get(h, x, k) ==
    IF x.t # "ref" \/ k \notin h[x.n].keys THEN Undefined
    ELSE IF k = "value" THEN h[x.n].value
    ELSE IF k = "error" THEN h[x.n].error
    ELSE IF k = "status" THEN h[x.n].status
    ELSE Undefined

\* ToBoolean(x)
Truthy(x) ==
    /\ x.t \notin {"undefined", "null"}
    /\ x # Num(0)
    /\ x # Str("")
    /\ x # Bool(FALSE)

----------------------------------------------------------------------------
(* Outcomes and evaluations *)

Return(v) == [kind |-> "return", val |-> v]

Throw(v) == [kind |-> "throw", val |-> v]

Eval(h, out, calls, inspected) ==
    [heap |-> h, out |-> out, calls |-> calls, inspected |-> inspected]

\* a user callback, as a test stub: it returns or throws a fixed value
Stub(mode, val) == [mode |-> mode, val |-> val]

\* the record of one invocation of a user callback
Call(name, args) == [fn |-> name, args |-> args]

\* the outcome of invoking a stub
Invoke(stub) == IF stub.mode = "throw" THEN Throw(stub.val) ELSE Return(stub.val)

\* k in x : a TypeError unless x is an object
In(h, k, x) ==
    IF x.t = "ref" THEN Return(Bool(k \in h[x.n].keys)) ELSE Throw(TypeError)

----------------------------------------------------------------------------
(* Result: constructors and type guards (field presence)                   *)

\* success(value): { value }
success(h, value) ==
    Eval(Append(h, Object({"value"}, value, Undefined, Undefined)),
         Return(Ref(Len(h) + 1)), <<>>, 0)

\* a bug: a failure that carries a value field as well
failure_withValue(h, error) ==
    Eval(Append(h, Object({"value", "error"}, Undefined, error, Undefined)),
         Return(Ref(Len(h) + 1)), <<>>, 0)

\* failure(error): { error }
failure(h, error) ==
    Eval(Append(h, Object({"error"}, Undefined, error, Undefined)),
         Return(Ref(Len(h) + 1)), <<>>, 0)

\* a bug: success-ness read off the payload instead of the field's presence
isSuccess_byPayload(h, result) ==
    Return(Bool(Truthy(Get(h, result, "value"))))

\* result != null && typeof result === "object" && "value" in result
isSuccess(h, result) ==
    IF ~NotNullish(result) THEN Return(Bool(FALSE))
    ELSE IF TypeOf(h, result) # "object" THEN Return(Bool(FALSE))
    ELSE In(h, "value", result)

\* result != null && typeof result === "object" && "error" in result
isFailure(h, result) ==
    IF ~NotNullish(result) THEN Return(Bool(FALSE))
    ELSE IF TypeOf(h, result) # "object" THEN Return(Bool(FALSE))
    ELSE In(h, "error", result)

\* a predicate evaluated to true
Holds(o) == o = Return(Bool(TRUE))

----------------------------------------------------------------------------
(* Maybe *)

\* some(value): { value }
some(h, value) ==
    Eval(Append(h, Object({"value"}, value, Undefined, Undefined)),
         Return(Ref(Len(h) + 1)), <<>>, 0)

\* a bug: presence of a value tested by the value, not by the field
isSome_defined(h, maybe) == Return(Bool(NotNullish(Get(h, maybe, "value"))))

isSome(h, maybe) == isSuccess(h, maybe)

isNone(h, maybe) == isFailure(h, maybe)

----------------------------------------------------------------------------
(* AsyncResult: the pending marker and the guards over arbitrary values    *)

\* a bug: the property read without the guards before it
isPending_unguarded(h, result) ==
    IF ~NotNullish(result) THEN Throw(TypeError)
    ELSE Return(Bool(Get(h, result, "status") = Str("pending")))

\* result != null && typeof result === "object" && "status" in result
\*   && result.status === "pending"
isPending(h, result) ==
    IF ~NotNullish(result) THEN Return(Bool(FALSE))
    ELSE IF TypeOf(h, result) # "object" THEN Return(Bool(FALSE))
    ELSE LET present == In(h, "status", result)
         IN  IF ~Holds(present) THEN present
             ELSE Return(Bool(Get(h, result, "status") = Str("pending")))

\* isSuccess(result) || isFailure(result)
isResult(h, result) ==
    LET s == isSuccess(h, result)
    IN  IF s.kind = "throw" \/ Holds(s) THEN s ELSE isFailure(h, result)

\* isPending(result) || isResult(result)
isAsyncResult(h, result) ==
    LET p == isPending(h, result)
    IN  IF p.kind = "throw" \/ Holds(p) THEN p ELSE isResult(h, result)

----------------------------------------------------------------------------
(* The heap when user code starts: the module constants, then what the     *)
(* caller has at hand.                                                     *)

\* export const none: None = failure(null), the first object allocated
ModuleHeap ==
    Append(failure(<<>>, Null).heap, Object({"status"}, Undefined, Undefined, Str("pending")))

none == Ref(Len(ModuleHeap) - 1)

pending == Ref(Len(ModuleHeap))

\* values that are no library-built Result, as the guards' tests pass them:
\* {}, { random }, { status: "other" }, { status: "pending", extra },
\* { value: 42, status: "success" }, [], function () {},
\* and objects carrying the fields of two variants at once
ForeignObjects ==
    << Object({}, Undefined, Undefined, Undefined),
       Object({"random"}, Undefined, Undefined, Undefined),
       Object({"status"}, Undefined, Undefined, Str("other")),
       Object({"status", "extra"}, Undefined, Undefined, Str("pending")),
       Object({"value", "status"}, Num(42), Undefined, Str("success")),
       Array(<<>>),
       Function,
       Object({"value", "error"}, Num(42), Str("x"), Undefined),
       Object({"status", "value"}, Num(42), Undefined, Str("pending")) >>

GuardsHeap == ModuleHeap \o ForeignObjects

\* results built by the constructors before the calls under study
PoolHeap ==
    LET h1 == success(ModuleHeap, Undefined).heap
        h2 == success(h1, Num(42)).heap
        h3 == failure(h2, Undefined).heap
    IN  failure(h3, Str("x")).heap

\* payloads the calls of a behaviour construct new results from
Payloads == {Undefined, Null, Num(42)}

Idle ==
    [op |-> "", args |-> <<>>, fns |-> <<>>, out |-> Return(Undefined),
     calls |-> <<>>, inspected |-> 0]

\* one call by user code: its evaluation becomes the state
Do(op, args, fns, e) ==
    /\ allocs + (Len(e.heap) - Len(heap)) <= MaxAlloc
    /\ heap' = e.heap
    /\ allocs' = allocs + (Len(e.heap) - Len(heap))
    /\ last' = [op |-> op, args |-> args, fns |-> fns, out |-> e.out,
                calls |-> e.calls, inspected |-> e.inspected]

\* a predicate call allocates nothing
Pure(h, out) == Eval(h, out, <<>>, 0)

----------------------------------------------------------------------------
(* Calls: constructors and guards *)

CallSuccess(v) == Do("success", <<v>>, <<>>, success(heap, v))

CallFailure(v) == Do("failure", <<v>>, <<>>, failure(heap, v))

CallIsSuccess(x) == Do("isSuccess", <<x>>, <<>>, Pure(heap, isSuccess(heap, x)))

CallIsFailure(x) == Do("isFailure", <<x>>, <<>>, Pure(heap, isFailure(heap, x)))

CallIsPending(x) == Do("isPending", <<x>>, <<>>, Pure(heap, isPending(heap, x)))

CallIsResult(x) == Do("isResult", <<x>>, <<>>, Pure(heap, isResult(heap, x)))

CallIsAsyncResult(x) == Do("isAsyncResult", <<x>>, <<>>, Pure(heap, isAsyncResult(heap, x)))

\* anything user code can hand to a guard: null, undefined, a number, a string,
\* a boolean, or any object at hand
Anything == {Undefined, Null, Num(42), Str("x"), Bool(TRUE)} \cup Refs(heap)

InitGuards ==
    /\ heap = GuardsHeap
    /\ allocs = 0
    /\ last = Idle

NextGuards ==
    \/ \E v \in Payloads : CallSuccess(v)
    \/ \E v \in Payloads : CallFailure(v)
    \/ \E x \in Anything : CallIsSuccess(x)
    \/ \E x \in Anything : CallIsFailure(x)
    \/ \E x \in Anything : CallIsPending(x)
    \/ \E x \in Anything : CallIsResult(x)
    \/ \E x \in Anything : CallIsAsyncResult(x)

SpecGuards == InitGuards /\ [][NextGuards]_vars

----------------------------------------------------------------------------
(* Result: unwrap and the combinators                                      *)

\* `c ? a : b` where evaluating the condition c may itself raise
Branch(c, h, a, b) ==
    IF c.kind = "throw" THEN Eval(h, c, <<>>, 0)
    ELSE IF Truthy(c.val) THEN a ELSE b

\* a bug: the error wrapped in a new Error before it is thrown
unwrap_wrapped(h, result) ==
    Branch(isSuccess(h, result), h,
        Eval(h, Return(Get(h, result, "value")), <<>>, 0),
        Eval(h, Throw(Str("Error")), <<>>, 0))

\* if (isSuccess(result)) return result.value; throw result.error
unwrap(h, result) ==
    Branch(isSuccess(h, result), h,
        Eval(h, Return(Get(h, result, "value")), <<>>, 0),
        Eval(h, Throw(Get(h, result, "error")), <<>>, 0))

\* a bug: the failure rebuilt instead of passed through
map_rebuild(h, result, fn) ==
    Branch(isSuccess(h, result), h,
        LET r == Invoke(fn)
            c == <<Call("fn", <<Get(h, result, "value")>>)>>
        IN  IF r.kind = "throw" THEN Eval(h, r, c, 0)
            ELSE Eval(success(h, r.val).heap, success(h, r.val).out, c, 0),
        failure(h, Get(h, result, "error")))

\* a bug: what fn throws caught and returned as a Failure
map_catching(h, result, fn) ==
    Branch(isSuccess(h, result), h,
        LET r == Invoke(fn)
            c == <<Call("fn", <<Get(h, result, "value")>>)>>
        IN  IF r.kind = "throw" THEN Eval(failure(h, r.val).heap, failure(h, r.val).out, c, 0)
            ELSE Eval(success(h, r.val).heap, success(h, r.val).out, c, 0),
        Eval(h, Return(result), <<>>, 0))

\* a bug: the value replaced in place, and the same object returned
map_inPlace(h, result, fn) ==
    Branch(isSuccess(h, result), h,
        LET r == Invoke(fn)
            c == <<Call("fn", <<Get(h, result, "value")>>)>>
        IN  IF r.kind = "throw" THEN Eval(h, r, c, 0)
            ELSE Eval([h EXCEPT ![result.n].value = r.val], Return(result), c, 0),
        Eval(h, Return(result), <<>>, 0))

\* isSuccess(result) ? success(fn(result.value)) : result
map(h, result, fn) ==
    Branch(isSuccess(h, result), h,
        LET r == Invoke(fn)
            c == <<Call("fn", <<Get(h, result, "value")>>)>>
        IN  IF r.kind = "throw" THEN Eval(h, r, c, 0)
            ELSE Eval(success(h, r.val).heap, success(h, r.val).out, c, 0),
        Eval(h, Return(result), <<>>, 0))

\* a bug: chain written as map, wrapping what fn returns
chain_wrapping(h, result, fn) ==
    Branch(isSuccess(h, result), h,
        LET r == Invoke(fn)
            c == <<Call("fn", <<Get(h, result, "value")>>)>>
        IN  IF r.kind = "throw" THEN Eval(h, r, c, 0)
            ELSE Eval(success(h, r.val).heap, success(h, r.val).out, c, 0),
        Eval(h, Return(result), <<>>, 0))

\* isSuccess(result) ? fn(result.value) : result
chain(h, result, fn) ==
    Branch(isSuccess(h, result), h,
        Eval(h, Invoke(fn), <<Call("fn", <<Get(h, result, "value")>>)>>, 0),
        Eval(h, Return(result), <<>>, 0))

\* a bug: both handlers run, the matching one last
match_both(h, result, patterns) ==
    Branch(isSuccess(h, result), h,
        Eval(h, Invoke(patterns.success),
             <<Call("failure", <<Get(h, result, "error")>>),
               Call("success", <<Get(h, result, "value")>>)>>, 0),
        Eval(h, Invoke(patterns.failure),
             <<Call("failure", <<Get(h, result, "error")>>)>>, 0))

\* isSuccess(result) ? patterns.success(result.value) : patterns.failure(result.error)
match(h, result, patterns) ==
    Branch(isSuccess(h, result), h,
        Eval(h, Invoke(patterns.success),
             <<Call("success", <<Get(h, result, "value")>>)>>, 0),
        Eval(h, Invoke(patterns.failure),
             <<Call("failure", <<Get(h, result, "error")>>)>>, 0))

----------------------------------------------------------------------------
(* The tagged representation: { status: "success", value } and             *)
(* { status: "failure", error }, with flatMap in place of chain            *)

successTagged(h, value) ==
    Eval(Append(h, Object({"status", "value"}, value, Undefined, Str("success"))),
         Return(Ref(Len(h) + 1)), <<>>, 0)

failureTagged(h, error) ==
    Eval(Append(h, Object({"status", "error"}, Undefined, error, Str("failure"))),
         Return(Ref(Len(h) + 1)), <<>>, 0)

\* result.status === "success"
isSuccessTagged(h, result) ==
    IF ~NotNullish(result) THEN Throw(TypeError)
    ELSE Return(Bool(Get(h, result, "status") = Str("success")))

\* result.status === "failure"
isFailureTagged(h, result) ==
    IF ~NotNullish(result) THEN Throw(TypeError)
    ELSE Return(Bool(Get(h, result, "status") = Str("failure")))

\* isSuccess(result) ? fn(result.value) : result
flatMap(h, result, fn) ==
    Branch(isSuccessTagged(h, result), h,
        Eval(h, Invoke(fn), <<Call("fn", <<Get(h, result, "value")>>)>>, 0),
        Eval(h, Return(result), <<>>, 0))

----------------------------------------------------------------------------
(* Calls: unwrap, map, chain / flatMap, match                              *)

\* what success(v) and failure(e) allocate
SuccessOf(v) == success(<<>>, v).heap[1]

FailureOf(e) == failure(<<>>, e).heap[1]

SuccessTaggedOf(v) == successTagged(<<>>, v).heap[1]

FailureTaggedOf(e) == failureTagged(<<>>, e).heap[1]

\* the well-formed results at hand: each is what a constructor allocates
Results(h) ==
    {r \in Refs(h) : h[r.n] \in {SuccessOf(h[r.n].value), FailureOf(h[r.n].error)}}

TaggedResults(h) ==
    {r \in Refs(h) : h[r.n] \in {SuccessTaggedOf(h[r.n].value), FailureTaggedOf(h[r.n].error)}}

\* callbacks that return a plain value, or throw
ValueStubs == {Stub("return", Undefined), Stub("return", Num(7)), Stub("throw", Str("boom"))}

\* callbacks that return one of the given results, or throw
ResultStubs(rs) == {Stub("return", r) : r \in rs} \cup {Stub("throw", Str("boom"))}

CallUnwrap(r) == Do("unwrap", <<r>>, <<>>, unwrap(heap, r))

CallMap(r, fn) == Do("map", <<r>>, <<fn>>, map(heap, r, fn))

CallChain(r, fn) == Do("chain", <<r>>, <<fn>>, chain(heap, r, fn))

CallFlatMap(r, fn) == Do("flatMap", <<r>>, <<fn>>, flatMap(heap, r, fn))

CallMatch(r, s, f) ==
    Do("match", <<r>>, <<s, f>>, match(heap, r, [success |-> s, failure |-> f]))

\* the pool, and two results of the tagged representation
CombinatorsHeap ==
    failureTagged(successTagged(PoolHeap, Num(42)).heap, Str("x")).heap

InitCombinators ==
    /\ heap = CombinatorsHeap
    /\ allocs = 0
    /\ last = Idle

NextCombinators ==
    \/ \E r \in Results(heap) : CallUnwrap(r)
    \/ \E r \in Results(heap), fn \in ValueStubs : CallMap(r, fn)
    \/ \E r \in Results(heap), fn \in ResultStubs(Results(heap)) : CallChain(r, fn)
    \/ \E r \in TaggedResults(heap), fn \in ResultStubs(TaggedResults(heap)) : CallFlatMap(r, fn)
    \/ \E r \in Results(heap), s \in ValueStubs, f \in ValueStubs : CallMatch(r, s, f)

SpecCombinators == InitCombinators /\ [][NextCombinators]_vars

----------------------------------------------------------------------------
(* Result: all and any.  The loops run over the array's elements in index  *)
(* order; `inspected` counts the elements the loop has looked at.  The     *)
(* accumulator array becomes part of the heap where it is returned.        *)

RECURSIVE allLoop(_, _, _, _)
\* for (const item of many) { if (!isSuccess(item)) return item; values.push(item.value) }
allLoop(h, items, i, values) ==
    IF i > Len(items) THEN [early |-> FALSE, out |-> Return(Undefined), acc |-> values, inspected |-> i - 1]
    ELSE LET c == isSuccess(h, items[i])
         IN  IF c.kind = "throw" THEN [early |-> TRUE, out |-> c, acc |-> values, inspected |-> i]
             ELSE IF ~Truthy(c.val)
                  THEN [early |-> TRUE, out |-> Return(items[i]), acc |-> values, inspected |-> i]
                  ELSE allLoop(h, items, i + 1, Append(values, Get(h, items[i], "value")))

RECURSIVE anyLoop(_, _, _, _)
\* for (const item of many) { if (isSuccess(item)) return item; errors.push(item.error) }
anyLoop(h, items, i, errors) ==
    IF i > Len(items) THEN [early |-> FALSE, out |-> Return(Undefined), acc |-> errors, inspected |-> i - 1]
    ELSE LET c == isSuccess(h, items[i])
         IN  IF c.kind = "throw" THEN [early |-> TRUE, out |-> c, acc |-> errors, inspected |-> i]
             ELSE IF Truthy(c.val)
                  THEN [early |-> TRUE, out |-> Return(items[i]), acc |-> errors, inspected |-> i]
                  ELSE anyLoop(h, items, i + 1, Append(errors, Get(h, items[i], "error")))

\* the indices of the items on which isSuccess is false / true
FailingAt(h, items) == {i \in 1..Len(items) : ~Holds(isSuccess(h, items[i]))}

SucceedingAt(h, items) == {i \in 1..Len(items) : Holds(isSuccess(h, items[i]))}

Last(S) == CHOOSE i \in S : \A j \in S : j <= i

\* a bug: the whole array is scanned and the last failure returned
all_lastFailure(h, many) ==
    LET items == h[many.n].elems
        run == allLoop(h, items, 1, <<>>)
        withArray == Append(h, Array(run.acc))
        built == success(withArray, Ref(Len(withArray)))
    IN  IF run.early
        THEN Eval(h, Return(items[Last(FailingAt(h, items))]), <<>>, Len(items))
        ELSE Eval(built.heap, built.out, <<>>, run.inspected)

\* const values = []; for (...) {...}; return success(values)
all(h, many) ==
    LET run == allLoop(h, h[many.n].elems, 1, <<>>)
        withArray == Append(h, Array(run.acc))
        built == success(withArray, Ref(Len(withArray)))
    IN  IF run.early THEN Eval(h, run.out, <<>>, run.inspected)
        ELSE Eval(built.heap, built.out, <<>>, run.inspected)

\* a bug: any of no item at all taken for a Success
any_emptySucceeds(h, many) ==
    LET run == anyLoop(h, h[many.n].elems, 1, <<>>)
        withArray == Append(h, Array(run.acc))
        built == IF h[many.n].elems = <<>> THEN success(withArray, Ref(Len(withArray)))
                 ELSE failure(withArray, Ref(Len(withArray)))
    IN  IF run.early THEN Eval(h, run.out, <<>>, run.inspected)
        ELSE Eval(built.heap, built.out, <<>>, run.inspected)

\* a bug: the whole array is scanned and the last success returned
any_lastSuccess(h, many) ==
    LET items == h[many.n].elems
        run == anyLoop(h, items, 1, <<>>)
        withArray == Append(h, Array(run.acc))
        built == failure(withArray, Ref(Len(withArray)))
    IN  IF run.early
        THEN Eval(h, Return(items[Last(SucceedingAt(h, items))]), <<>>, Len(items))
        ELSE Eval(built.heap, built.out, <<>>, run.inspected)

\* const errors = []; for (...) {...}; return failure(errors)
any(h, many) ==
    LET run == anyLoop(h, h[many.n].elems, 1, <<>>)
        withArray == Append(h, Array(run.acc))
        built == failure(withArray, Ref(Len(withArray)))
    IN  IF run.early THEN Eval(h, run.out, <<>>, run.inspected)
        ELSE Eval(built.heap, built.out, <<>>, run.inspected)

----------------------------------------------------------------------------
(* Calls: all, any                                                         *)

SeqsUpTo(S, n) == UNION {[1..k -> S] : k \in 0..n}

\* the arrays at hand
Arrays(h) == {a \in Refs(h) : h[a.n].kind = "array"}

CallAll(many) == Do("all", <<many>>, <<>>, all(heap, many))

CallAny(many) == Do("any", <<many>>, <<>>, any(heap, many))

\* the caller has built one array of results from the pool
InitCollections ==
    /\ \E items \in SeqsUpTo(Results(PoolHeap), MaxLen) : heap = Append(PoolHeap, Array(items))
    /\ allocs = 0
    /\ last = Idle

\* arrays of results only: the accumulator arrays all / any return hold payloads
NextCollections ==
    \/ \E many \in Arrays(heap) : Range(heap[many.n].elems) \subseteq Results(heap) /\ CallAll(many)
    \/ \E many \in Arrays(heap) : Range(heap[many.n].elems) \subseteq Results(heap) /\ CallAny(many)

SpecCollections == InitCollections /\ [][NextCollections]_vars

----------------------------------------------------------------------------
(* AsyncResult: matchAsync, an async function.  Its body has no await, so  *)
(* it runs to its return inside the call; the call returns a new promise,  *)
(* rejected when the body threw, resolved with the returned value          *)
(* otherwise: fulfilled at once for a plain value, and following the       *)
(* returned promise (settling in a later job) when the value is a promise. *)

Promises(h) == {q \in Refs(h) : h[q.n].kind = "promise"}

\* the promise an async function returns for the evaluation of its body
Async(body) ==
    LET h == body.heap
        q == IF body.out.kind = "throw" THEN Promise("rejected", body.out.val, 0)
             ELSE IF body.out.val \in Promises(h) THEN Promise("pending", Undefined, body.out.val.n)
             ELSE Promise("fulfilled", body.out.val, 0)
    IN  Eval(Append(h, q), Return(Ref(Len(h) + 1)), body.calls, body.inspected)

\* a bug: the pending case is not told apart and falls through to match
matchAsync_noPendingCase(h, result, patterns) ==
    Async(match(h, result, patterns))

\* async: return isPending(result) ? patterns.pending() : match(result, patterns)
matchAsync(h, result, patterns) ==
    Async(Branch(isPending(h, result), h,
              Eval(h, Invoke(patterns.pending), <<Call("pending", <<>>)>>, 0),
              match(h, result, patterns)))

----------------------------------------------------------------------------
(* Calls: matchAsync; the jobs that settle promises                        *)

\* handler sets in which the three handlers behave differently: each handler
\* is, in one of the sets, the one that returns 7, that throws, that returns
\* the promise p, that returns undefined
AsyncPatterns(p) ==
    LET b == <<Stub("return", Num(7)), Stub("throw", Str("boom")),
               Stub("return", p), Stub("return", Undefined)>>
    IN  {[pending |-> b[k], success |-> b[(k % 4) + 1], failure |-> b[((k + 1) % 4) + 1]] :
            k \in 1..4}

CallMatchAsync(r, patterns) ==
    Do("matchAsync", <<r>>, <<patterns.pending, patterns.success, patterns.failure>>,
       matchAsync(heap, r, patterns))

\* user code settles a promise of its own
SettlePromise(p, state, v) ==
    /\ heap[p.n].state = "pending"
    /\ heap[p.n].follows = 0
    /\ heap[p.n].cont = ""
    /\ heap' = [heap EXCEPT ![p.n] = Promise(state, v, 0)]
    /\ UNCHANGED <<last, allocs>>

\* the job that settles a promise resolved with another promise, once that
\* one has settled
AdoptPromise(q) ==
    /\ heap[q.n].state = "pending"
    /\ heap[q.n].follows # 0
    /\ heap[q.n].cont = "adopt"
    /\ heap[heap[q.n].follows].state # "pending"
    /\ heap' = [heap EXCEPT ![q.n] = Promise(heap[heap[q.n].follows].state,
                                             heap[heap[q.n].follows].value,
                                             heap[q.n].follows)]
    /\ UNCHANGED <<last, allocs>>

\* the pool, and one promise user code has created and not settled yet
AsyncHeap == Append(PoolHeap, Promise("pending", Undefined, 0))

UserPromise == Ref(Len(AsyncHeap))

InitAsync ==
    /\ heap = AsyncHeap
    /\ allocs = 0
    /\ last = Idle

NextAsync ==
    \/ \E r \in Results(heap) \cup {pending}, patterns \in AsyncPatterns(UserPromise) :
          CallMatchAsync(r, patterns)
    \/ \E state \in {"fulfilled", "rejected"}, v \in {Num(7), Str("boom")} :
          SettlePromise(UserPromise, state, v)
    \/ \E q \in Promises(heap) : AdoptPromise(q)

SpecAsync == InitAsync /\ [][NextAsync]_vars

----------------------------------------------------------------------------
(* Result: the unwrap variants, recover, and the synchronous adapters      *)

\* the i-th argument of a call; an argument left out is undefined
Param(args, i) == IF i <= Len(args) THEN args[i] ELSE Undefined

\* a parameter with a default: the default applies to undefined
Default(v, d) == IF v = Undefined THEN d ELSE v

\* a bug: the default taken whenever the value is falsy
unwrapOr_falsy(h, result, defaultValue) ==
    Branch(isSuccess(h, result), h,
        Eval(h, Return(IF Truthy(Get(h, result, "value")) THEN Get(h, result, "value")
                       ELSE defaultValue), <<>>, 0),
        Eval(h, Return(defaultValue), <<>>, 0))

\* isSuccess(result) ? result.value : defaultValue
unwrapOr(h, result, defaultValue) ==
    Branch(isSuccess(h, result), h,
        Eval(h, Return(Get(h, result, "value")), <<>>, 0),
        Eval(h, Return(defaultValue), <<>>, 0))

\* the tagged version: isSuccess(result) ? result.value : defaultValue
unwrapOrTagged(h, result, defaultValue) ==
    Branch(isSuccessTagged(h, result), h,
        Eval(h, Return(Get(h, result, "value")), <<>>, 0),
        Eval(h, Return(defaultValue), <<>>, 0))

\* unwrapOr(result, undefined)
unwrapOrUndefined(h, result) == unwrapOrTagged(h, result, Undefined)

\* a bug: fn evaluated eagerly, before the variant is looked at
unwrapOrElse_eager(h, result, fn) ==
    LET r == Invoke(fn)
        c == <<Call("fn", <<Get(h, result, "error")>>)>>
    IN  IF r.kind = "throw" THEN Eval(h, r, c, 0)
        ELSE Branch(isSuccess(h, result), h,
                 Eval(h, Return(Get(h, result, "value")), c, 0),
                 Eval(h, r, c, 0))

\* isSuccess(result) ? result.value : fn(result.error)
unwrapOrElse(h, result, fn) ==
    Branch(isSuccess(h, result), h,
        Eval(h, Return(Get(h, result, "value")), <<>>, 0),
        Eval(h, Invoke(fn), <<Call("fn", <<Get(h, result, "error")>>)>>, 0))

\* a bug: a Success is rebuilt, and fn's result returned bare
recover_bare(h, result, fn) ==
    Branch(isSuccess(h, result), h,
        success(h, Get(h, result, "value")),
        Eval(h, Invoke(fn), <<Call("fn", <<Get(h, result, "error")>>)>>, 0))

\* a bug: the error of a Failure raised again instead of recovered
recover_raising(h, result, fn) ==
    Branch(isSuccess(h, result), h,
        Eval(h, Return(result), <<>>, 0),
        Eval(h, Throw(Get(h, result, "error")), <<>>, 0))

\* isSuccess(result) ? result : success(fn(result.error))
recover(h, result, fn) ==
    Branch(isSuccess(h, result), h,
        Eval(h, Return(result), <<>>, 0),
        LET r == Invoke(fn)
            c == <<Call("fn", <<Get(h, result, "error")>>)>>
        IN  IF r.kind = "throw" THEN Eval(h, r, c, 0)
            ELSE Eval(success(h, r.val).heap, success(h, r.val).out, c, 0))

\* a bug: no catch around the call
fromTry_noCatch(h, fn) ==
    LET r == Invoke(fn)
        c == <<Call("fn", <<>>)>>
    IN  IF r.kind = "throw" THEN Eval(h, r, c, 0)
        ELSE Eval(success(h, r.val).heap, success(h, r.val).out, c, 0)

\* try { return success(fn()) } catch (error) { return failure(error) }
fromTry(h, fn) ==
    LET r == Invoke(fn)
        c == <<Call("fn", <<>>)>>
    IN  IF r.kind = "throw" THEN Eval(failure(h, r.val).heap, failure(h, r.val).out, c, 0)
        ELSE Eval(success(h, r.val).heap, success(h, r.val).out, c, 0)

\* a bug: presence tested by truthiness
fromNullable_falsy(h, value, error) ==
    IF Truthy(value) THEN success(h, value) ELSE failure(h, error)

\* value != null ? success(value) : failure(error)
fromNullable(h, value, error) ==
    IF NotNullish(value) THEN success(h, value) ELSE failure(h, error)

\* a[i]; an index past the end reads undefined
At(h, a, i) == IF i <= Len(h[a.n].elems) THEN h[a.n].elems[i] ELSE Undefined

\* a bug: the error slot tested by truthiness
fromOutcome_falsy(h, outcome) ==
    IF Truthy(At(h, outcome, 1)) THEN failure(h, At(h, outcome, 1))
    ELSE success(h, At(h, outcome, 2))

\* const [error, value] = outcome;
\* if (error != null) return failure(error); return success(value)
fromOutcome(h, outcome) ==
    IF NotNullish(At(h, outcome, 1)) THEN failure(h, At(h, outcome, 1))
    ELSE success(h, At(h, outcome, 2))

----------------------------------------------------------------------------
(* Error utilities                                                         *)

\* throw error
raise(h, error) == Eval(h, Throw(error), <<>>, 0)

\* a bug: every falsy value taken as missing
must_falsy(h, value, errorMessage) ==
    IF ~Truthy(value)
    THEN Eval(h, Throw(Error(Default(errorMessage, Str("Value is undefined or null")).s)), <<>>, 0)
    ELSE Eval(h, Return(value), <<>>, 0)

\* if (value == null) throw new Error(errorMessage); return value
must(h, value, errorMessage) ==
    IF ~NotNullish(value)
    THEN Eval(h, Throw(Error(Default(errorMessage, Str("Value is undefined or null")).s)), <<>>, 0)
    ELSE Eval(h, Return(value), <<>>, 0)

\* if (value === undefined) throw new Error(errorMessage); return value
strictMust(h, value, errorMessage) ==
    IF value = Undefined
    THEN Eval(h, Throw(Error(Default(errorMessage, Str("Value is undefined")).s)), <<>>, 0)
    ELSE Eval(h, Return(value), <<>>, 0)

\* if (!cond) throw new Error(message)
assert(h, cond, message) ==
    IF ~Truthy(cond)
    THEN Eval(h, Throw(Error(Default(message, Str("Assertion failed")).s)), <<>>, 0)
    ELSE Eval(h, Return(Undefined), <<>>, 0)

\* `${value}`
Interpolate(h, v) ==
    CASE v.t = "undefined" -> "undefined"
      [] v.t = "null" -> "null"
      [] v.t = "string" -> v.s
      [] v.t = "boolean" -> IF v.n = 1 THEN "true" ELSE "false"
      [] v = Num(0) -> "0"
      [] v = Num(7) -> "7"
      [] v = Num(42) -> "42"
      [] OTHER -> "[object Object]"

\* throw new Error(`Unhandled value: ${value}`)
assertNever(h, value) ==
    Eval(h, Throw(Error("Unhandled value: " \o Interpolate(h, value))), <<>>, 0)

----------------------------------------------------------------------------
(* Calls: the unwrap variants, recover, and the synchronous adapters       *)

\* error slots of an outcome: none (null, undefined), falsy ones, a truthy one
ErrorSlots == {Undefined, Null, Num(0), Str(""), Bool(FALSE), Str("x")}

\* outcome tuples user code holds: [null, 42], [undefined, 42], [0, 42],
\* ["", 42], [false, 42], ["x", 42], ["x", undefined]
OutcomeTuples ==
    << Array(<<Null, Num(42)>>), Array(<<Undefined, Num(42)>>), Array(<<Num(0), Num(42)>>),
       Array(<<Str(""), Num(42)>>), Array(<<Bool(FALSE), Num(42)>>),
       Array(<<Str("x"), Num(42)>>), Array(<<Str("x"), Undefined>>) >>

\* one call by user code in a behaviour that makes no other call
Once(op, args, fns, e) ==
    /\ last = Idle
    /\ heap' = e.heap
    /\ allocs' = allocs + (Len(e.heap) - Len(heap))
    /\ last' = [op |-> op, args |-> args, fns |-> fns, out |-> e.out,
                calls |-> e.calls, inspected |-> e.inspected]

Tuples(h) == {a \in Refs(h) : h[a.n].kind = "array" /\ Len(h[a.n].elems) = 2}

CallUnwrapOr(args) ==
    Once("unwrapOr", args, <<>>, unwrapOr(heap, Param(args, 1), Param(args, 2)))

CallUnwrapOrUndefined(r) ==
    Once("unwrapOrUndefined", <<r>>, <<>>, unwrapOrUndefined(heap, r))

CallUnwrapOrElse(r, fn) == Once("unwrapOrElse", <<r>>, <<fn>>, unwrapOrElse(heap, r, fn))

CallRecover(r, fn) == Once("recover", <<r>>, <<fn>>, recover(heap, r, fn))

CallFromTry(fn) == Once("fromTry", <<>>, <<fn>>, fromTry(heap, fn))

CallFromNullable(args) ==
    Once("fromNullable", args, <<>>, fromNullable(heap, Param(args, 1), Param(args, 2)))

CallFromOutcome(outcome) == Once("fromOutcome", <<outcome>>, <<>>, fromOutcome(heap, outcome))

\* the results, the outcome tuples, and a promise user code holds
AdaptersHeap(p) == (CombinatorsHeap \o OutcomeTuples) \o <<p>>

InitAdapters ==
    /\ heap \in {AdaptersHeap(p) : p \in {Promise("pending", Undefined, 0),
                                          Promise("fulfilled", Num(7), 0),
                                          Promise("rejected", Str("boom"), 0)}}
    /\ allocs = 0
    /\ last = Idle

NextAdapters ==
    \/ \E r \in Results(heap), d \in {Undefined, Num(0)} : CallUnwrapOr(<<r, d>>)
    \/ \E r \in Results(heap) : CallUnwrapOr(<<r>>)
    \/ \E r \in TaggedResults(heap) : CallUnwrapOrUndefined(r)
    \/ \E r \in Results(heap), fn \in ValueStubs : CallUnwrapOrElse(r, fn)
    \/ \E r \in Results(heap), fn \in ValueStubs : CallRecover(r, fn)
    \/ \E fn \in ValueStubs \cup {Stub("return", q) : q \in Promises(heap)} : CallFromTry(fn)
    \/ \E v \in {Undefined, Null, Num(0), Str(""), Bool(FALSE), Num(42)} :
          \/ CallFromNullable(<<v>>)
          \/ CallFromNullable(<<v, Str("x")>>)
    \/ \E outcome \in Tuples(heap) : CallFromOutcome(outcome)

SpecAdapters == InitAdapters /\ [][NextAdapters]_vars

----------------------------------------------------------------------------
(* Result: the asynchronous adapters and the error-first bridge            *)

\* a bug: the promise settled without waiting for what is awaited
Suspend_timeout(h, cont, v, calls) ==
    Eval(Append(h, Promise("fulfilled", Undefined, 0)), Return(Ref(Len(h) + 1)), calls, 0)

\* an async function suspended at `await v`: the promise it has returned
Suspend(h, cont, v, calls) ==
    LET q == IF v \in Promises(h) THEN Awaiting(cont, v.n, Undefined, Undefined)
             ELSE Awaiting(cont, 0, v, Undefined)
    IN  Eval(Append(h, q), Return(Ref(Len(h) + 1)), calls, 0)

\* what `await` yields once the awaited promise has settled: its value, or
\* its reason thrown; a value that is no promise is yielded as it is
Awaited(h, q) ==
    IF h[q.n].follows = 0 THEN Return(h[q.n].value)
    ELSE IF h[h[q.n].follows].state = "fulfilled" THEN Return(h[h[q.n].follows].value)
    ELSE Throw(h[h[q.n].follows].value)

\* a bug: no catch around the await
afterAwait_noCatch(h, settled) ==
    IF settled.kind = "throw" THEN Eval(h, settled, <<>>, 0) ELSE success(h, settled.val)

\* try { return success(await ...) } catch (error) { return failure(error) },
\* from the await on
afterAwait(h, settled) ==
    IF settled.kind = "throw" THEN failure(h, settled.val) ELSE success(h, settled.val)

\* async: try { const value = await promise; return success(value) } catch ...
fromPromise(h, promise) == Suspend(h, "fromPromise", promise, <<>>)

\* async: try { return success(await fn()) } catch (error) { return failure(error) }
fromTryAsync(h, fn) ==
    LET r == Invoke(fn)
        c == <<Call("fn", <<>>)>>
    IN  IF r.kind = "throw"
        THEN Async(Eval(failure(h, r.val).heap, failure(h, r.val).out, c, 0))
        ELSE Suspend(h, "fromTryAsync", r.val, c)

\* a bug: a settled promise settled again
Settle_again(h, q, state, v) == [h EXCEPT ![q] = Promise(state, v, 0)]

\* resolve(v) with a v that is no promise, or reject(v): a settled promise
\* stays as it is
Settle(h, q, state, v) ==
    IF h[q].state = "pending" THEN [h EXCEPT ![q] = Promise(state, v, 0)] ELSE h

\* liftOutcome(cb): a new error-first callback
liftOutcome(h, cb) ==
    Eval(Append(h, Closure("liftOutcome", 0, cb)), Return(Ref(Len(h) + 1)), <<>>, 0)

\* cb(result): the callback given to liftOutcome; the one fromNodeCallback
\* gives is result => resolve(result)
Deliver(h, f, result) ==
    IF h[f.n].cont = "resolve"
    THEN Eval(Settle(h, h[f.n].follows, "fulfilled", result), Return(Undefined),
              <<Call("cb", <<result>>)>>, 0)
    ELSE Eval(h, IF h[f.n].state = "throw" THEN Throw(h[f.n].aux) ELSE Return(Undefined),
              <<Call("cb", <<result>>)>>, 0)

\* a bug: the error tested by truthiness
lifted_falsy(h, f, error, value) ==
    IF Truthy(error)
    THEN Deliver(failure(h, error).heap, f, failure(h, error).out.val)
    ELSE Deliver(success(h, value).heap, f, success(h, value).out.val)

\* (error, result) => { if (error != null) cb(failure(error)) else cb(success(result)) }
lifted(h, f, error, value) ==
    IF NotNullish(error)
    THEN Deliver(failure(h, error).heap, f, failure(h, error).out.val)
    ELSE Deliver(success(h, value).heap, f, success(h, value).out.val)

\* what a function handed an error-first callback does before it returns:
\* it invokes the callback with each of the pairs, then returns or throws
Script(sync, mode, val) == [sync |-> sync, mode |-> mode, val |-> val]

RECURSIVE RunScript(_, _, _, _)
\* fn(callback), up to its return or throw
RunScript(h, f, pairs, i) ==
    IF i > Len(pairs) THEN h
    ELSE RunScript(lifted(h, f, pairs[i][1], pairs[i][2]).heap, f, pairs, i + 1)

\* new Promise(resolve => fn(liftOutcome(result => resolve(result)))): the
\* executor runs at once; what it throws rejects the promise
fromNodeCallback(h, fn) ==
    LET h1 == Append(h, Promise("pending", Undefined, 0))
        q == Len(h1)
        h2 == Append(h1, Closure("resolve", q, Stub("return", Undefined)))
        h3 == RunScript(h2, Ref(Len(h2)), fn.sync, 1)
        h4 == IF fn.mode = "throw" THEN Settle(h3, q, "rejected", fn.val) ELSE h3
    IN  Eval(h4, Return(Ref(q)), [i \in 1..Len(fn.sync) |-> Call("callback", fn.sync[i])], 0)

----------------------------------------------------------------------------
(* Calls: the asynchronous adapters and the bridge; their jobs             *)

MaxInvoke == 2

\* the arguments a function passes to its error-first callback
Pairs == {<<e, Num(42)>> : e \in ErrorSlots} \cup {<<Str("x"), Undefined>>}

\* the callbacks liftOutcome has returned
Lifted(h) == {f \in Refs(h) : h[f.n].kind = "function" /\ h[f.n].cont = "liftOutcome"}

\* the callbacks fromNodeCallback has handed to fn
Resolvers(h) == {f \in Refs(h) : h[f.n].kind = "function" /\ h[f.n].cont = "resolve"}

CallFromPromise(p) == Once("fromPromise", <<p>>, <<>>, fromPromise(heap, p))

CallFromTryAsync(fn) == Once("fromTryAsync", <<>>, <<fn>>, fromTryAsync(heap, fn))

CallLiftOutcome(cb) == Once("liftOutcome", <<>>, <<cb>>, liftOutcome(heap, cb))

CallFromNodeCallback(fn) == Once("fromNodeCallback", <<>>, <<fn>>, fromNodeCallback(heap, fn))

\* user code invokes a callback liftOutcome returned
CallLifted(f, error, value) ==
    /\ last.op \in {"liftOutcome", "lifted"}
    /\ Do("lifted", <<f, error, value>>, <<Stub(heap[f.n].state, heap[f.n].aux)>>,
          lifted(heap, f, error, value))

\* the wrapped operation invokes its callback after fn has returned or thrown
LateCallback(f, error, value) ==
    /\ last.op = "fromNodeCallback"
    /\ Len(last.calls) < MaxInvoke
    /\ heap' = lifted(heap, f, error, value).heap
    /\ allocs' = allocs + 1
    /\ last' = [last EXCEPT !.calls = Append(@, Call("callback", <<error, value>>))]

\* the job that resumes an async function once what it awaits has settled,
\* and settles the promise it returned with the outcome of the rest of its body
ResumeAwait(q) ==
    /\ heap[q.n].state = "pending"
    /\ heap[q.n].cont \in {"fromPromise", "fromTryAsync"}
    /\ heap[q.n].follows # 0 => heap[heap[q.n].follows].state # "pending"
    /\ LET r == afterAwait(heap, Awaited(heap, q))
       IN  heap' = [r.heap EXCEPT ![q.n] =
                       Promise(IF r.out.kind = "throw" THEN "rejected" ELSE "fulfilled",
                               r.out.val, 0)]
    /\ allocs' = allocs + 1
    /\ UNCHANGED last

Jobs == \E q \in Promises(heap) : ResumeAwait(q)

InitBridge ==
    /\ heap = AsyncHeap
    /\ allocs = 0
    /\ last = Idle

NextBridge ==
    \/ \E p \in Promises(heap) : CallFromPromise(p)
    \/ \E fn \in ValueStubs \cup {Stub("return", q) : q \in Promises(heap)} : CallFromTryAsync(fn)
    \/ \E cb \in {Stub("return", Undefined), Stub("throw", Str("boom"))} : CallLiftOutcome(cb)
    \/ \E sync \in SeqsUpTo(Pairs, MaxInvoke), mode \in {"return", "throw"} :
          CallFromNodeCallback(Script(sync, mode, Str("boom")))
    \/ \E f \in Lifted(heap), pair \in Pairs : CallLifted(f, pair[1], pair[2])
    \/ \E f \in Resolvers(heap), pair \in Pairs : LateCallback(f, pair[1], pair[2])
    \/ \E state \in {"fulfilled", "rejected"}, v \in {Num(7), Str("boom")} :
          SettlePromise(UserPromise, state, v)
    \/ Jobs

\* jobs in the queue are run: an async function whose awaited promise has
\* settled is resumed
SpecBridge == InitBridge /\ [][NextBridge]_vars /\ WF_vars(Jobs)

----------------------------------------------------------------------------
(* Error utilities: safely, attempt                                        *)

\* typeof x === "function"
IsFn(x) == "mode" \in DOMAIN x

\* p.then(value => ...): a new promise, settled by a job once p has settled
Then(e, cont, aux) ==
    Eval(Append(e.heap, Awaiting(cont, e.out.val.n, Undefined, aux)),
         Return(Ref(Len(e.heap) + 1)), e.calls, 0)

\* a bug: the callable invoked with no catch around it
safely_noCatch(h, x, defaultValue) ==
    IF IsFn(x)
    THEN LET t == fromTry_noCatch(h, x)
         IN  IF t.out.kind = "throw" THEN t
             ELSE IF Get(t.heap, t.out.val, "value") \in Promises(t.heap)
                  THEN Then(Eval(fromPromise(t.heap, Get(t.heap, t.out.val, "value")).heap,
                                 fromPromise(t.heap, Get(t.heap, t.out.val, "value")).out,
                                 t.calls, 0),
                            "safely", defaultValue)
                  ELSE Eval(t.heap, Return(Get(t.heap, t.out.val, "value")), t.calls, 0)
    ELSE Then(fromPromise(h, x), "safely", defaultValue)

\* safely(x, defaultValue)
safely(h, x, defaultValue) ==
    IF IsFn(x)
    THEN LET t == fromTry(h, x)
             value == Get(t.heap, t.out.val, "value")
         IN  IF Holds(isSuccess(t.heap, t.out.val))
             THEN IF value \in Promises(t.heap)
                  THEN Then(Eval(fromPromise(t.heap, value).heap,
                                 fromPromise(t.heap, value).out, t.calls, 0),
                            "safely", defaultValue)
                  ELSE Eval(t.heap, Return(value), t.calls, 0)
             ELSE Eval(t.heap, Return(defaultValue), t.calls, 0)
    ELSE Then(fromPromise(h, x), "safely", defaultValue)

\* a bug: the callable invoked with no catch around it
attempt_noCatch(h, x) ==
    IF IsFn(x)
    THEN LET t == fromTry_noCatch(h, x)
         IN  IF t.out.kind = "throw" THEN t
             ELSE IF Get(t.heap, t.out.val, "value") \in Promises(t.heap)
                  THEN Eval(fromPromise(t.heap, Get(t.heap, t.out.val, "value")).heap,
                            fromPromise(t.heap, Get(t.heap, t.out.val, "value")).out,
                            t.calls, 0)
                  ELSE t
    ELSE fromPromise(h, x)

\* attempt(x)
attempt(h, x) ==
    IF IsFn(x)
    THEN LET t == fromTry(h, x)
             value == Get(t.heap, t.out.val, "value")
         IN  IF Holds(isSuccess(t.heap, t.out.val))
             THEN IF value \in Promises(t.heap)
                  THEN Eval(fromPromise(t.heap, value).heap,
                            fromPromise(t.heap, value).out, t.calls, 0)
                  ELSE Eval(success(t.heap, value).heap, success(t.heap, value).out,
                            t.calls, 0)
             ELSE t
    ELSE fromPromise(h, x)

----------------------------------------------------------------------------
(* Calls: every exported operation, once, on well-formed inputs with       *)
(* callbacks that return                                                   *)

CallSome(v) == Once("some", <<v>>, <<>>, some(heap, v))

CallIsSome(m) == Once("isSome", <<m>>, <<>>, Pure(heap, isSome(heap, m)))

CallIsNone(m) == Once("isNone", <<m>>, <<>>, Pure(heap, isNone(heap, m)))

CallRaise(args) == Once("raise", args, <<>>, raise(heap, Param(args, 1)))

CallMust(args) == Once("must", args, <<>>, must(heap, Param(args, 1), Param(args, 2)))

CallStrictMust(args) ==
    Once("strictMust", args, <<>>, strictMust(heap, Param(args, 1), Param(args, 2)))

CallAssert(args) == Once("assert", args, <<>>, assert(heap, Param(args, 1), Param(args, 2)))

CallAssertNever(v) == Once("assertNever", <<v>>, <<>>, assertNever(heap, v))

CallSafely(x, defaultValue) ==
    Once("safely", <<x, defaultValue>>, IF IsFn(x) THEN <<x>> ELSE <<>>,
         safely(heap, x, defaultValue))

CallAttempt(x) == Once("attempt", <<x>>, IF IsFn(x) THEN <<x>> ELSE <<>>, attempt(heap, x))

\* the job that runs the handler safely has attached with then, once the
\* promise of fromPromise has settled: value => unwrapOr(value, defaultValue)
ResumeThen(q) ==
    /\ heap[q.n].state = "pending"
    /\ heap[q.n].cont = "safely"
    /\ heap[heap[q.n].follows].state # "pending"
    /\ LET p == heap[heap[q.n].follows]
           r == IF p.state = "rejected" THEN Eval(heap, Throw(p.value), <<>>, 0)
                ELSE unwrapOr(heap, p.value, heap[q.n].aux)
       IN  heap' = [r.heap EXCEPT ![q.n] =
                       Promise(IF r.out.kind = "throw" THEN "rejected" ELSE "fulfilled",
                               r.out.val, 0)]
    /\ UNCHANGED <<last, allocs>>

\* callbacks that return a plain value
ReturningStubs == {Stub("return", Undefined), Stub("return", Num(7))}

\* handler sets whose handlers return 7, undefined, or the promise p
ReturningPatterns(p) ==
    LET b == <<Stub("return", Num(7)), Stub("return", Undefined), Stub("return", p)>>
    IN  {[pending |-> b[k], success |-> b[(k % 3) + 1], failure |-> b[((k + 1) % 3) + 1]] :
            k \in 1..3}

\* values of every kind that is no object
Plain == {Undefined, Null, Num(0), Num(42), Str(""), Str("x"), Bool(FALSE), Bool(TRUE)}

\* the pool of the asynchronous calls, and results of the tagged
\* representation, outcome tuples, an empty array and an array of results
ApiHeap ==
    LET h1 == failureTagged(successTagged(AsyncHeap, Num(42)).heap, Str("x")).heap
        h2 == h1 \o OutcomeTuples
    IN  h2 \o <<Array(<<>>), Array(<<Ref(4), Ref(6), Ref(3)>>)>>

InitApi ==
    /\ heap = ApiHeap
    /\ allocs = 0
    /\ last = Idle

CallsApi ==
    \/ \E v \in Payloads : CallSuccess(v) \/ CallFailure(v) \/ CallSome(v)
    \/ \E x \in Anything :
          \/ CallIsSuccess(x) \/ CallIsFailure(x) \/ CallIsPending(x)
          \/ CallIsResult(x) \/ CallIsAsyncResult(x)
          \/ CallIsSome(x) \/ CallIsNone(x)
    \/ \E r \in Results(heap) :
          \/ CallUnwrap(r)
          \/ CallUnwrapOr(<<r>>) \/ CallUnwrapOr(<<r, Num(0)>>)
          \/ \E fn \in ReturningStubs :
                \/ CallUnwrapOrElse(r, fn) \/ CallRecover(r, fn) \/ CallMap(r, fn)
                \/ CallMatch(r, fn, Stub("return", Num(7)))
          \/ \E fn \in ResultStubs(Results(heap)) : fn.mode = "return" /\ CallChain(r, fn)
    \/ \E r \in TaggedResults(heap) :
          \/ CallUnwrapOrUndefined(r)
          \/ \E fn \in ResultStubs(TaggedResults(heap)) : fn.mode = "return" /\ CallFlatMap(r, fn)
    \/ \E r \in Results(heap) \cup {pending}, patterns \in ReturningPatterns(UserPromise) :
          CallMatchAsync(r, patterns)
    \/ \E many \in Arrays(heap) :
          /\ Range(heap[many.n].elems) \subseteq Results(heap)
          /\ CallAll(many) \/ CallAny(many)
    \/ \E fn \in ReturningStubs \cup {Stub("return", UserPromise)} :
          \/ CallFromTry(fn) \/ CallFromTryAsync(fn)
          \/ CallAttempt(fn)
          \/ \E d \in {Undefined, Num(0)} : CallSafely(fn, d)
    \/ CallFromPromise(UserPromise)
    \/ CallAttempt(UserPromise)
    \/ \E d \in {Undefined, Num(0)} : CallSafely(UserPromise, d)
    \/ \E v \in Plain : CallFromNullable(<<v>>) \/ CallFromNullable(<<v, Str("x")>>)
    \/ \E outcome \in Tuples(heap) : CallFromOutcome(outcome)
    \/ \E cb \in ReturningStubs : CallLiftOutcome(cb)
    \/ \E sync \in SeqsUpTo(Pairs, 1) : CallFromNodeCallback(Script(sync, "return", Undefined))
    \/ CallRaise(<<>>) \/ CallRaise(<<Str("x")>>)
    \/ \E v \in Plain :
          \/ CallMust(<<v>>) \/ CallMust(<<v, Str("m")>>)
          \/ CallStrictMust(<<v>>) \/ CallStrictMust(<<v, Str("m")>>)
          \/ CallAssert(<<v>>) \/ CallAssert(<<v, Str("m")>>)
          \/ CallAssertNever(v)

NextApi ==
    \/ last = Idle /\ CallsApi
    \/ \E f \in Lifted(heap), pair \in Pairs : CallLifted(f, pair[1], pair[2])
    \/ \E f \in Resolvers(heap), pair \in Pairs : LateCallback(f, pair[1], pair[2])
    \/ \E state \in {"fulfilled", "rejected"}, v \in {Num(7), Str("boom")} :
          SettlePromise(UserPromise, state, v)
    \/ \E q \in Promises(heap) : AdoptPromise(q) \/ ResumeAwait(q) \/ ResumeThen(q)

SpecApi == InitApi /\ [][NextApi]_vars

----------------------------------------------------------------------------
(* Calls: safely and attempt, on callables that return or throw and on     *)
(* promises; their jobs                                                    *)

\* callables that return a plain value, throw, or return the promise p
Callables(p) == ValueStubs \cup {Stub("return", p)}

JobsSafe == \E q \in Promises(heap) : ResumeAwait(q) \/ ResumeThen(q)

InitSafe ==
    /\ heap = AsyncHeap
    /\ allocs = 0
    /\ last = Idle

NextSafe ==
    \/ \E fn \in Callables(UserPromise), d \in {Undefined, Num(0)} : CallSafely(fn, d)
    \/ \E d \in {Undefined, Num(0)} : CallSafely(UserPromise, d)
    \/ \E fn \in Callables(UserPromise) : CallAttempt(fn)
    \/ CallAttempt(UserPromise)
    \/ \E state \in {"fulfilled", "rejected"}, v \in {Undefined, Num(7), Str("boom")} :
          SettlePromise(UserPromise, state, v)
    \/ JobsSafe

\* jobs in the queue are run
SpecSafe == InitSafe /\ [][NextSafe]_vars /\ WF_vars(JobsSafe)

----------------------------------------------------------------------------
(* Calls: Maybe values under the Maybe guards and the Result operations    *)

\* the Maybe values at hand: a Some is a Success, a None a Failure of null
Maybes(h) == {m \in Results(h) : h[m.n] = FailureOf(Null) \/ "value" \in h[m.n].keys}

\* none, and some(undefined), some(42), success(42), failure(null)
MaybeHeap ==
    LET h1 == some(ModuleHeap, Undefined).heap
        h2 == some(h1, Num(42)).heap
        h3 == success(h2, Num(42)).heap
    IN  failure(h3, Null).heap

InitMaybe ==
    /\ heap = MaybeHeap
    /\ allocs = 0
    /\ last = Idle

NextMaybe ==
    \/ \E v \in Payloads : CallSome(v)
    \/ \E m \in Maybes(heap) : CallIsSome(m) \/ CallIsNone(m)
    \/ \E m \in Maybes(heap) : CallIsSuccess(m) \/ CallIsFailure(m)
    \/ \E m \in Maybes(heap) : CallUnwrap(m)
    \/ \E m \in Maybes(heap), d \in {Undefined, Num(0)} : CallUnwrapOr(<<m, d>>)
    \/ \E m \in Maybes(heap), fn \in ValueStubs : CallUnwrapOrElse(m, fn)
    \/ \E m \in Maybes(heap), fn \in ValueStubs : CallMap(m, fn)
    \/ \E m \in Maybes(heap), fn \in ResultStubs(Maybes(heap)) : CallChain(m, fn)

SpecMaybe == InitMaybe /\ [][NextMaybe]_vars

----------------------------------------------------------------------------
(* Calls: raise, must, strictMust, assert, assertNever on values of every  *)
(* kind                                                                    *)

\* a message argument: left out, undefined, or given
Messages(v) == {<<v>>, <<v, Undefined>>, <<v, Str("m")>>}

InitErrors ==
    /\ heap = PoolHeap
    /\ allocs = 0
    /\ last = Idle

NextErrors ==
    \/ CallRaise(<<>>)
    \/ \E v \in Plain \cup Refs(heap) : CallRaise(<<v>>)
    \/ \E v \in Plain \cup Refs(heap) : \E args \in Messages(v) : CallMust(args)
    \/ \E v \in Plain \cup Refs(heap) : \E args \in Messages(v) : CallStrictMust(args)
    \/ \E v \in Plain \cup Refs(heap) : \E args \in Messages(v) : CallAssert(args)
    \/ \E v \in Plain \cup Refs(heap) : CallAssertNever(v)

SpecErrors == InitErrors /\ [][NextErrors]_vars

----------------------------------------------------------------------------
(* Sequences of calls to the combinators, the adapters, all / any and the  *)
(* matchers                                                                *)

\* user code goes on to its next call
Continue ==
    /\ last # Idle
    /\ allocs < MaxAlloc
    /\ last' = Idle
    /\ UNCHANGED <<heap, allocs>>

\* the pool, an outcome tuple and an array of results
FrameHeap ==
    PoolHeap \o <<Array(<<Str("boom"), Num(7)>>), Array(<<Ref(3), Ref(4)>>)>>

\* the arrays of results at hand
ResultArrays(h) == {a \in Arrays(h) : Range(h[a.n].elems) \subseteq Results(h)}

\* callbacks of the calls in sequence: one returns 7, one throws
FrameStubs == {Stub("return", Num(7)), Stub("throw", Str("boom"))}

InitFrame ==
    /\ heap = FrameHeap
    /\ allocs = 0
    /\ last = Idle

NextFrame ==
    \/ \E r \in Results(heap) : CallUnwrap(r) \/ CallUnwrapOr(<<r, Num(0)>>)
    \/ \E r \in Results(heap), fn \in FrameStubs :
          \/ CallMap(r, fn) \/ CallRecover(r, fn) \/ CallUnwrapOrElse(r, fn)
          \/ CallMatch(r, fn, Stub("return", Num(7)))
    \/ \E r \in Results(heap) : CallChain(r, Stub("return", none))
    \/ \E many \in ResultArrays(heap) : CallAll(many) \/ CallAny(many)
    \/ \E r \in Results(heap) \cup {pending} :
          CallMatchAsync(r, [pending |-> Stub("return", Num(7)),
                             success |-> Stub("return", Num(7)),
                             failure |-> Stub("throw", Str("boom"))])
    \/ \E fn \in FrameStubs : CallFromTry(fn)
    \/ CallFromNullable(<<Null, Str("boom")>>) \/ CallFromNullable(<<Num(7)>>)
    \/ \E outcome \in Tuples(heap) : CallFromOutcome(outcome)
    \/ Continue

SpecFrame == InitFrame /\ [][NextFrame]_vars

----------------------------------------------------------------------------
(* Compositions of the operations that build or return a Result            *)

\* none and pending, success(42), the outcomes [null, 42] and [42, undefined],
\* an empty array and the array [success(42), none]
ClosureHeap ==
    success(ModuleHeap, Num(42)).heap \o
        <<Array(<<Null, Num(42)>>), Array(<<Num(42), Undefined>>), Array(<<>>),
          Array(<<Ref(Len(ModuleHeap) + 1), none>>)>>

\* payloads of the compositions: undefined, and the pending marker itself
ClosurePayloads == {Undefined, pending}

\* callbacks returning a plain value, or throwing
ClosureStubs == {Stub("return", Undefined), Stub("throw", Str("boom"))}

InitClosure ==
    /\ heap = ClosureHeap
    /\ allocs = 0
    /\ last = Idle

NextClosure ==
    \/ \E v \in ClosurePayloads : CallSuccess(v) \/ CallFailure(v) \/ CallSome(v)
    \/ \E fn \in ClosureStubs : CallFromTry(fn) \/ CallAttempt(fn)
    \/ CallFromNullable(<<Null>>) \/ CallFromNullable(<<pending, Str("x")>>)
    \/ \E outcome \in Tuples(heap) \ ResultArrays(heap) : CallFromOutcome(outcome)
    \/ \E r \in Results(heap), fn \in ClosureStubs : CallMap(r, fn) \/ CallRecover(r, fn)
    \/ \E r \in Results(heap), fn \in ResultStubs(Results(heap)) : CallChain(r, fn)
    \/ \E many \in ResultArrays(heap) : CallAll(many) \/ CallAny(many)
    \/ Continue

SpecClosure == InitClosure /\ [][NextClosure]_vars

----------------------------------------------------------------------------
(* Calls: every operation that takes a callback, with callbacks that throw *)

\* callbacks that throw "boom", throw undefined, or return 7
ThrowingStubs == {Stub("throw", Str("boom")), Stub("throw", Undefined), Stub("return", Num(7))}

CallsThrowing ==
    \/ \E r \in Results(heap), fn \in ThrowingStubs :
          \/ CallMap(r, fn) \/ CallChain(r, fn) \/ CallRecover(r, fn)
          \/ CallUnwrapOrElse(r, fn)
          \/ CallMatch(r, fn, Stub("throw", Str("other")))
          \/ CallMatch(r, Stub("throw", Str("other")), fn)
    \/ \E r \in Results(heap) \cup {pending}, fn \in ThrowingStubs :
          CallMatchAsync(r, [pending |-> fn, success |-> fn, failure |-> fn])
    \/ \E fn \in ThrowingStubs :
          \/ CallFromTry(fn) \/ CallFromTryAsync(fn) \/ CallAttempt(fn)
          \/ CallSafely(fn, Num(0))
          \/ CallLiftOutcome(fn)
    \/ CallFromPromise(UserPromise)
    \/ CallAttempt(UserPromise)
    \/ CallSafely(UserPromise, Num(0))
    \/ \E sync \in SeqsUpTo(Pairs, 1), mode \in {"return", "throw"} :
          CallFromNodeCallback(Script(sync, mode, Str("boom")))

InitThrowing ==
    /\ heap = AsyncHeap
    /\ allocs = 0
    /\ last = Idle

NextThrowing ==
    \/ last = Idle /\ CallsThrowing
    \/ \E f \in Lifted(heap), pair \in Pairs : CallLifted(f, pair[1], pair[2])
    \/ \E v \in {Str("boom"), Undefined} : SettlePromise(UserPromise, "rejected", v)
    \/ SettlePromise(UserPromise, "fulfilled", Num(7))
    \/ JobsSafe

SpecThrowing == InitThrowing /\ [][NextThrowing]_vars

----------------------------------------------------------------------------
(* Claims about the constructors and the guards, under SpecGuards          *)

\* C1: for every payload v, null and undefined included, success(v) returns
\* (never raises) a value on which isSuccess is true and isFailure is false,
\* and failure(v) returns a value on which isFailure is true and isSuccess is
\* false; the payload is stored as given.
C1_ConstructorsDiscriminate ==
    /\ last.op = "success" =>
          /\ last.out.kind = "return"
          /\ isSuccess(heap, last.out.val) = Return(Bool(TRUE))
          /\ isFailure(heap, last.out.val) = Return(Bool(FALSE))
          /\ Get(heap, last.out.val, "value") = last.args[1]
    /\ last.op = "failure" =>
          /\ last.out.kind = "return"
          /\ isFailure(heap, last.out.val) = Return(Bool(TRUE))
          /\ isSuccess(heap, last.out.val) = Return(Bool(FALSE))
          /\ Get(heap, last.out.val, "error") = last.args[1]

\* a failure carrying undefined and a success carrying null have been built
C1_Witness ==
    /\ last.op = "failure"
    /\ last.args = <<Undefined>>
    /\ last.out.kind = "return"
    /\ heap[Len(heap) - 1] = Object({"value"}, Null, Undefined, Undefined)

\* the states of the three-way classification that hold of x
Classes(h, x) ==
    {c \in {"pending", "success", "failure"} :
        \/ c = "pending" /\ Holds(isPending(h, x))
        \/ c = "success" /\ Holds(isSuccess(h, x))
        \/ c = "failure" /\ Holds(isFailure(h, x))}

\* C2: every value x, library-built or foreign, that isAsyncResult accepts is
\* in exactly one of the states pending, success, failure.
C2_ExactlyOneState ==
    (last.op = "isAsyncResult" /\ Holds(last.out)) =>
        Cardinality(Classes(heap, last.args[1])) = 1

\* values that have neither a Result's fields nor the pending status
Unrelated(h, x) ==
    \/ x.t # "ref"
    \/ h[x.n].kind \in {"array", "function"}
    \/ /\ h[x.n].kind = "object"
       /\ h[x.n].keys \cap {"value", "error"} = {}
       /\ ~("status" \in h[x.n].keys /\ h[x.n].status = Str("pending"))

\* C10: isResult and isAsyncResult never raise; isAsyncResult(x) is
\* isPending(x) or isResult(x); both are false on null, undefined, numbers,
\* strings, booleans, arrays, functions, {} and objects with an unrelated
\* status; isResult(pending) is false and isAsyncResult(pending) is true.
C10_GuardsTotal ==
    last.op \in {"isResult", "isAsyncResult"} =>
        LET x == last.args[1]
        IN  /\ last.out.kind = "return"
            /\ last.out.val \in {Bool(TRUE), Bool(FALSE)}
            /\ last.op = "isAsyncResult" =>
                  (Holds(last.out) <=>
                      (Holds(isPending(heap, x)) \/ Holds(isResult(heap, x))))
            /\ Unrelated(heap, x) => last.out = Return(Bool(FALSE))
            /\ x = pending => (Holds(last.out) <=> last.op = "isAsyncResult")

\* isAsyncResult was asked about null and answered false
C10_Witness ==
    /\ last.op = "isAsyncResult"
    /\ last.args = <<Null>>
    /\ last.out = Return(Bool(FALSE))

----------------------------------------------------------------------------
(* Claims about unwrap and the combinators, under SpecCombinators          *)

\* C3: unwrap(success(v)) returns v; unwrap(failure(e)) raises, and the
\* raised value is e itself.
C3_Unwrap ==
    last.op = "unwrap" =>
        LET o == heap[last.args[1].n]
        IN  /\ o = SuccessOf(o.value) => last.out = Return(o.value)
            /\ o = FailureOf(o.error) => last.out = Throw(o.error)

\* unwrap raised the error of a failure built with "x"
C3_Witness ==
    /\ last.op = "unwrap"
    /\ heap[last.args[1].n] = FailureOf(Str("x"))
    /\ last.out = Throw(Str("x"))

\* C6: map(success(v), f) invokes f exactly once, with v, and returns a
\* Success wrapping what f returned; map(failure(e), f) returns the same
\* Failure instance and never invokes f.
C6_Map ==
    last.op = "map" =>
        LET r == last.args[1]
            o == heap[r.n]
            f == last.fns[1]
        IN  /\ o = SuccessOf(o.value) =>
                  /\ last.calls = <<Call("fn", <<o.value>>)>>
                  /\ f.mode = "return" =>
                        /\ last.out.kind = "return"
                        /\ last.out.val \in Refs(heap)
                        /\ heap[last.out.val.n] = SuccessOf(f.val)
            /\ o = FailureOf(o.error) =>
                  /\ last.out = Return(r)
                  /\ last.calls = <<>>

\* map turned success(42) into a new Success holding f's 7
C6_Witness ==
    /\ last.op = "map"
    /\ heap[last.args[1].n] = SuccessOf(Num(42))
    /\ last.fns = <<Stub("return", Num(7))>>
    /\ last.out.kind = "return"
    /\ last.out.val # last.args[1]
    /\ heap[last.out.val.n] = SuccessOf(Num(7))

\* C7: chain / flatMap(success(v), f) invokes f with v and returns exactly the
\* Result f returned, Success or Failure; chain / flatMap(failure(e), f)
\* returns the same Failure instance and never invokes f.
C7_Chain ==
    /\ last.op = "chain" =>
          LET r == last.args[1]
              o == heap[r.n]
          IN  /\ o = SuccessOf(o.value) =>
                    /\ last.calls = <<Call("fn", <<o.value>>)>>
                    /\ last.fns[1].mode = "return" => last.out = Return(last.fns[1].val)
              /\ o = FailureOf(o.error) =>
                    /\ last.out = Return(r)
                    /\ last.calls = <<>>
    /\ last.op = "flatMap" =>
          LET r == last.args[1]
              o == heap[r.n]
          IN  /\ o = SuccessTaggedOf(o.value) =>
                    /\ last.calls = <<Call("fn", <<o.value>>)>>
                    /\ last.fns[1].mode = "return" => last.out = Return(last.fns[1].val)
              /\ o = FailureTaggedOf(o.error) =>
                    /\ last.out = Return(r)
                    /\ last.calls = <<>>

\* chain on a Success returned the Failure its callback produced
C7_Witness ==
    /\ last.op = "chain"
    /\ heap[last.args[1].n] = SuccessOf(Num(42))
    /\ last.out.kind = "return"
    /\ heap[last.out.val.n] = FailureOf(Str("x"))
    /\ last.calls = <<Call("fn", <<Num(42)>>)>>

\* C8: match invokes exactly one handler, exactly once: success with the
\* value of a Success, failure with the error of a Failure; it returns what
\* that handler returned.
C8_Match ==
    last.op = "match" =>
        LET o == heap[last.args[1].n]
        IN  /\ Len(last.calls) = 1
            /\ o = SuccessOf(o.value) =>
                  /\ last.calls = <<Call("success", <<o.value>>)>>
                  /\ last.out = Invoke(last.fns[1])
            /\ o = FailureOf(o.error) =>
                  /\ last.calls = <<Call("failure", <<o.error>>)>>
                  /\ last.out = Invoke(last.fns[2])

\* match on failure("x") ran the failure handler only and returned its 7,
\* not the undefined the success handler would have returned
C8_Witness ==
    /\ last.op = "match"
    /\ heap[last.args[1].n] = FailureOf(Str("x"))
    /\ last.fns = <<Stub("return", Undefined), Stub("return", Num(7))>>
    /\ last.calls = <<Call("failure", <<Str("x")>>)>>
    /\ last.out = Return(Num(7))

----------------------------------------------------------------------------
(* Claims about all and any, under SpecCollections                         *)

\* the items of the array the last call was given
Items == heap[last.args[1].n].elems

\* the indices of the items that are Failures / Successes
Failures == {i \in 1..Len(Items) : heap[Items[i].n] = FailureOf(heap[Items[i].n].error)}

Successes == {i \in 1..Len(Items) : heap[Items[i].n] = SuccessOf(heap[Items[i].n].value)}

First(S) == CHOOSE i \in S : \A j \in S : i <= j

\* C4: all scans in index order.  With a Failure among the items it returns
\* the Failure of lowest index, the very same instance, having inspected no
\* item after it; with only Successes it returns a Success whose value is
\* the array of the items' values, in input order and of the input's length.
C4_All ==
    last.op = "all" =>
        /\ Failures # {} =>
              /\ last.out = Return(Items[First(Failures)])
              /\ last.inspected = First(Failures)
        /\ Failures = {} =>
              /\ last.out.kind = "return"
              /\ LET o == heap[last.out.val.n]
                 IN  /\ o = SuccessOf(o.value)
                     /\ o.value \in Arrays(heap)
                     /\ Len(heap[o.value.n].elems) = Len(Items)
                     /\ \A i \in 1..Len(Items) :
                           heap[o.value.n].elems[i] = heap[Items[i].n].value

\* all was given [success, failure, failure] and returned the middle item
\* after inspecting two
C4_Witness ==
    /\ last.op = "all"
    /\ Len(Items) = 3
    /\ Failures = {2, 3}
    /\ Items[2] # Items[3]
    /\ last.out = Return(Items[2])
    /\ last.inspected = 2

\* C5: any scans in index order.  With a Success among the items it returns
\* the Success of lowest index, the same instance, having inspected no item
\* after it; with only Failures it returns a Failure whose error is the array
\* of the items' errors, in input order and of the input's length.
C5_Any ==
    last.op = "any" =>
        /\ Successes # {} =>
              /\ last.out = Return(Items[First(Successes)])
              /\ last.inspected = First(Successes)
        /\ Successes = {} =>
              /\ last.out.kind = "return"
              /\ LET o == heap[last.out.val.n]
                 IN  /\ o = FailureOf(o.error)
                     /\ o.error \in Arrays(heap)
                     /\ Len(heap[o.error.n].elems) = Len(Items)
                     /\ \A i \in 1..Len(Items) :
                           heap[o.error.n].elems[i] = heap[Items[i].n].error

\* any was given three Failures with distinct errors and returned a Failure
\* of the three errors in order
C5_Witness ==
    /\ last.op = "any"
    /\ Len(Items) = 3
    /\ Successes = {}
    /\ last.out.kind = "return"
    /\ heap[heap[last.out.val.n].error.n].elems = <<Str("x"), Null, Undefined>>

----------------------------------------------------------------------------
(* Claims about matchAsync, under SpecAsync                                *)

\* the handler matchAsync has to invoke for its argument, and the call that
\* invokes it
Due ==
    LET r == last.args[1]
        o == heap[r.n]
    IN  IF r = pending THEN [stub |-> last.fns[1], call |-> Call("pending", <<>>)]
        ELSE IF o = SuccessOf(o.value) THEN [stub |-> last.fns[2], call |-> Call("success", <<o.value>>)]
        ELSE [stub |-> last.fns[3], call |-> Call("failure", <<o.error>>)]

\* C9: matchAsync always returns a promise and invokes exactly one handler:
\* the pending handler, with no argument, for pending; the success handler
\* with v for Success(v); the failure handler with e for Failure(e).  The
\* promise is resolved with what the handler returned: fulfilled with a plain
\* value, following (and then settled as) a promise the handler returned;
\* when the handler throws, the promise is rejected and the call still
\* returns.
C9_MatchAsync ==
    last.op = "matchAsync" =>
        /\ last.out.kind = "return"
        /\ last.out.val \in Promises(heap)
        /\ last.calls = <<Due.call>>
        /\ LET q == heap[last.out.val.n]
               s == Due.stub
           IN  /\ (s.mode = "return" /\ s.val \notin Promises(heap)) =>
                      (q.state = "fulfilled" /\ q.value = s.val)
               /\ (s.mode = "return" /\ s.val \in Promises(heap)) =>
                      /\ q.follows = s.val.n
                      /\ q.state \in {"pending", heap[s.val.n].state}
                      /\ q.state # "pending" => q.value = heap[s.val.n].value
               /\ s.mode = "throw" => (q.state = "rejected" /\ q.value = s.val)

\* matchAsync(pending, ...) ran the pending handler alone, which returned a
\* promise; that promise was fulfilled with 7 and so was the one returned
C9_Witness ==
    /\ last.op = "matchAsync"
    /\ last.args = <<pending>>
    /\ last.calls = <<Call("pending", <<>>)>>
    /\ last.fns[1] = Stub("return", UserPromise)
    /\ heap[last.out.val.n].state = "fulfilled"
    /\ heap[last.out.val.n].value = Num(7)


----------------------------------------------------------------------------
(* Claims about the adapters and the unwrap variants, under SpecAdapters   *)

\* the object a call has just allocated and returned
Fresh(out) ==
    /\ out.kind = "return"
    /\ out.val.t = "ref"
    /\ out.val.n = Len(heap)
    /\ allocs = 1

\* C14: fromOutcome([errorSlot, valueSlot]) returns Failure(errorSlot) whenever
\* errorSlot is neither null nor undefined, whatever valueSlot is, and
\* Success(valueSlot) when errorSlot is null or undefined
C14_FromOutcome ==
    last.op = "fromOutcome" =>
        LET slots == heap[last.args[1].n].elems
        IN  /\ Fresh(last.out)
            /\ slots[1] \notin {Null, Undefined} =>
                  heap[last.out.val.n] = FailureOf(slots[1])
            /\ slots[1] \in {Null, Undefined} =>
                  heap[last.out.val.n] = SuccessOf(slots[2])

\* fromOutcome([0, 42]) returned Failure(0)
C14_Witness ==
    /\ last.op = "fromOutcome"
    /\ heap[last.args[1].n].elems = <<Num(0), Num(42)>>
    /\ heap[last.out.val.n] = FailureOf(Num(0))

\* C15: fromNullable(value, error) returns Failure(error) exactly when value is
\* null or undefined, and Success(value) for every other value, the falsy
\* 0, "" and false included
C15_FromNullable ==
    last.op = "fromNullable" =>
        LET value == last.args[1]
            error == IF Len(last.args) > 1 THEN last.args[2] ELSE Undefined
        IN  /\ Fresh(last.out)
            /\ value \in {Null, Undefined} => heap[last.out.val.n] = FailureOf(error)
            /\ value \notin {Null, Undefined} => heap[last.out.val.n] = SuccessOf(value)

\* fromNullable("", "x") returned Success("")
C15_Witness ==
    /\ last.op = "fromNullable"
    /\ last.args = <<Str(""), Str("x")>>
    /\ heap[last.out.val.n] = SuccessOf(Str(""))

\* C16: fromTry(fn) invokes fn exactly once and never raises; it returns
\* Success(fn's return value) when fn returns and Failure(e) with the value e
\* fn threw; a promise fn returns is held by the Success as it is, whatever
\* its state
C16_FromTry ==
    last.op = "fromTry" =>
        LET fn == last.fns[1]
        IN  /\ last.calls = <<Call("fn", <<>>)>>
            /\ Fresh(last.out)
            /\ fn.mode = "return" => heap[last.out.val.n] = SuccessOf(fn.val)
            /\ fn.mode = "throw" => heap[last.out.val.n] = FailureOf(fn.val)
            /\ \A q \in Promises(heap) :
                  fn = Stub("return", q) =>
                      /\ Get(heap, last.out.val, "value") = q
                      /\ heap[q.n] \in {Promise("pending", Undefined, 0),
                                        Promise("fulfilled", Num(7), 0),
                                        Promise("rejected", Str("boom"), 0)}

\* fromTry of a function returning a rejected promise returned a Success
\* holding that promise, still rejected
C16_Witness ==
    /\ last.op = "fromTry"
    /\ last.fns[1].mode = "return"
    /\ last.fns[1].val \in Promises(heap)
    /\ heap[last.fns[1].val.n].state = "rejected"
    /\ Holds(isSuccess(heap, last.out.val))
    /\ Get(heap, last.out.val, "value") = last.fns[1].val

\* C18: unwrapOrElse(success(v), fn) returns v and never invokes fn;
\* unwrapOrElse(failure(e), fn) invokes fn exactly once, with e, and returns
\* fn's result
C18_UnwrapOrElse ==
    last.op = "unwrapOrElse" =>
        LET o == heap[last.args[1].n]
            fn == last.fns[1]
        IN  /\ o = SuccessOf(o.value) =>
                  /\ last.calls = <<>>
                  /\ last.out = Return(o.value)
            /\ o = FailureOf(o.error) =>
                  /\ last.calls = <<Call("fn", <<o.error>>)>>
                  /\ fn.mode = "return" => last.out = Return(fn.val)

\* unwrapOrElse(failure("x"), fn) called fn with "x" and returned its 7
C18_Witness ==
    /\ last.op = "unwrapOrElse"
    /\ heap[last.args[1].n] = FailureOf(Str("x"))
    /\ last.calls = <<Call("fn", <<Str("x")>>)>>
    /\ last.out = Return(Num(7))

\* C19: unwrapOr(r, d) never raises: it returns v for Success(v) and d for a
\* Failure; unwrapOrUndefined(r), and unwrapOr(r) with no default, return what
\* unwrapOr(r, undefined) returns
C19_UnwrapOr ==
    /\ last.op = "unwrapOr" =>
          LET o == heap[last.args[1].n]
              d == IF Len(last.args) > 1 THEN last.args[2] ELSE Undefined
          IN  /\ o = SuccessOf(o.value) => last.out = Return(o.value)
              /\ o = FailureOf(o.error) => last.out = Return(d)
              /\ Len(last.args) = 1 =>
                    last.out = unwrapOr(heap, last.args[1], Undefined).out
    /\ last.op = "unwrapOrUndefined" =>
          LET o == heap[last.args[1].n]
          IN  /\ o = SuccessTaggedOf(o.value) => last.out = Return(o.value)
              /\ o = FailureTaggedOf(o.error) => last.out = Return(Undefined)
              /\ last.out = unwrapOrTagged(heap, last.args[1], Undefined).out

\* unwrapOr(success(undefined), 0) returned undefined, the value of the Success
C19_Witness ==
    /\ last.op = "unwrapOr"
    /\ heap[last.args[1].n] = SuccessOf(Undefined)
    /\ last.args[2] = Num(0)
    /\ last.out = Return(Undefined)

\* unwrapOrUndefined(failure("x")) returned undefined
C19_WitnessUndefined ==
    /\ last.op = "unwrapOrUndefined"
    /\ heap[last.args[1].n] = FailureTaggedOf(Str("x"))
    /\ last.out = Return(Undefined)

\* C20: recover(r, fn) yields a Success: a Success r is returned itself and fn
\* is not invoked; for Failure(e), fn is invoked once with e and a new Success
\* wrapping fn(e) is returned
C20_Recover ==
    last.op = "recover" =>
        LET r == last.args[1]
            o == heap[r.n]
            fn == last.fns[1]
        IN  /\ o = SuccessOf(o.value) =>
                  /\ last.calls = <<>>
                  /\ last.out = Return(r)
                  /\ allocs = 0
            /\ o = FailureOf(o.error) =>
                  /\ last.calls = <<Call("fn", <<o.error>>)>>
                  /\ fn.mode = "return" =>
                        /\ Fresh(last.out)
                        /\ heap[last.out.val.n] = SuccessOf(fn.val)

\* recover(failure("x"), fn) called fn with "x" and returned a new Success(7)
C20_Witness ==
    /\ last.op = "recover"
    /\ heap[last.args[1].n] = FailureOf(Str("x"))
    /\ last.calls = <<Call("fn", <<Str("x")>>)>>
    /\ Fresh(last.out)
    /\ heap[last.out.val.n] = SuccessOf(Num(7))


----------------------------------------------------------------------------
(* Claims about the asynchronous adapters and the bridge, under SpecBridge *)

\* the promise the last call returned
Returned == heap[last.out.val.n]

\* the Result a promise settled with wraps the settlement of p
Wraps(q, p) ==
    /\ heap[p.n].state # "pending"
    /\ heap[p.n].state = "fulfilled" => heap[q.value.n] = SuccessOf(heap[p.n].value)
    /\ heap[p.n].state = "rejected" => heap[q.value.n] = FailureOf(heap[p.n].value)

\* the call returned a promise, which is not rejected
C12_NeverRejects ==
    last.op \in {"fromPromise", "fromTryAsync"} =>
        /\ last.out.kind = "return"
        /\ last.out.val \in Promises(heap)
        /\ Returned.state # "rejected"

\* fromPromise(p): Success(v) when p resolved with v, Failure(reason) when p
\* rejected with reason
C12_FromPromise ==
    (last.op = "fromPromise" /\ Returned.state = "fulfilled") =>
        Wraps(Returned, last.args[1])

\* fromTryAsync(fn): Failure(e) when fn throws e; Success of the value fn
\* returned, or of the value its promise resolved with; Failure(e) when its
\* promise rejected with e
C12_FromTryAsync ==
    last.op = "fromTryAsync" =>
        LET fn == last.fns[1]
        IN  /\ last.calls = <<Call("fn", <<>>)>>
            /\ fn.mode = "throw" =>
                  /\ Returned.state = "fulfilled"
                  /\ heap[Returned.value.n] = FailureOf(fn.val)
            /\ (fn.mode = "return" /\ Returned.state = "fulfilled") =>
                  IF fn.val \in Promises(heap) THEN Wraps(Returned, fn.val)
                  ELSE heap[Returned.value.n] = SuccessOf(fn.val)

\* what the adapter awaits has settled, or is no promise
C12_Ready ==
    \/ last.op = "fromPromise" /\ heap[last.args[1].n].state # "pending"
    \/ /\ last.op = "fromTryAsync"
       /\ last.fns[1].val \in Promises(heap) => heap[last.fns[1].val.n].state # "pending"

\* C12: fromPromise(p) resolves to Success(v) when p resolves with v and to
\* Failure(reason) when p rejects; fromTryAsync(fn) resolves to Success of fn's
\* returned-or-resolved value and to Failure(e) when fn throws e or its promise
\* rejects with e; the call returns normally, the returned promise never
\* rejects, and it resolves once what it awaits has settled
C12_AsyncAdapters ==
    /\ [](C12_NeverRejects /\ C12_FromPromise /\ C12_FromTryAsync)
    /\ C12_Ready ~> (C12_Ready /\ Returned.state = "fulfilled")

\* fromPromise(p) resolved to Failure("boom") after p rejected with "boom"
C12_Witness ==
    /\ last.op = "fromPromise"
    /\ heap[last.args[1].n].state = "rejected"
    /\ Returned.state = "fulfilled"
    /\ heap[Returned.value.n] = FailureOf(Str("boom"))

\* fromTryAsync(fn) resolved to Success(7) after the promise fn returned
\* resolved with 7
C12_WitnessTryAsync ==
    /\ last.op = "fromTryAsync"
    /\ last.fns[1].val \in Promises(heap)
    /\ heap[last.fns[1].val.n] = Promise("fulfilled", Num(7), 0)
    /\ Returned.state = "fulfilled"
    /\ heap[Returned.value.n] = SuccessOf(Num(7))


\* C11: fromNodeCallback(fn) returns normally and the promise it returned is
\* never rejected, whatever fn does: report an error through the callback, or
\* throw
C11_NeverRejects ==
    last.op = "fromNodeCallback" =>
        /\ last.out.kind = "return"
        /\ Returned.state # "rejected"

\* fn threw without having invoked its callback
ThrewFirst(fn) == fn.mode = "throw" /\ fn.sync = <<>>

\* the Result the lifted callback builds from (error, value)
Bridged(r, args) ==
    IF args[1] \in {Null, Undefined} THEN heap[r.n] = SuccessOf(args[2])
    ELSE heap[r.n] = FailureOf(args[1])

\* C13: invoked with (error, value), the callback liftOutcome(cb) returned
\* calls cb exactly once, with Failure(error) whenever error is neither null
\* nor undefined (0, "" and false included) and with Success(value) otherwise;
\* the promise of fromNodeCallback(fn) is resolved with that Result for the
\* arguments fn passed to its callback (the first it passed; an fn that threw
\* before passing any is the case of C11)
C13_Bridge ==
    /\ last.op = "lifted" =>
          /\ Len(last.calls) = 1
          /\ last.calls[1].fn = "cb"
          /\ Len(last.calls[1].args) = 1
          /\ last.calls[1].args[1] = Ref(Len(heap))
          /\ Bridged(last.calls[1].args[1], <<last.args[2], last.args[3]>>)
    /\ (last.op = "fromNodeCallback" /\ last.calls # <<>> /\ ~ThrewFirst(last.fns[1])) =>
          /\ Returned.state = "fulfilled"
          /\ Bridged(Returned.value, last.calls[1].args)

\* the lifted callback, invoked with (0, 42), called cb with Failure(0)
C13_Witness ==
    /\ last.op = "lifted"
    /\ last.args[2] = Num(0)
    /\ last.args[3] = Num(42)
    /\ heap[last.calls[1].args[1].n] = FailureOf(Num(0))

\* fromNodeCallback(fn) resolved to Failure("") after fn passed ("", 42)
C13_WitnessPromise ==
    /\ last.op = "fromNodeCallback"
    /\ last.calls # <<>>
    /\ last.calls[1].args = <<Str(""), Num(42)>>
    /\ Returned.state = "fulfilled"
    /\ heap[Returned.value.n] = FailureOf(Str(""))


----------------------------------------------------------------------------
(* Claims about the whole interface, under SpecApi                         *)

\* a call that raised was unwrap of a Failure, or one of the given operations
RaisedOnlyBy(ops) ==
    last.out.kind = "throw" =>
        \/ /\ last.op = "unwrap"
           /\ heap[last.args[1].n] = FailureOf(heap[last.args[1].n].error)
        \/ last.op \in ops

\* C17, as claimed: on well-formed inputs and with callbacks that do not
\* raise, only unwrap (of a Failure), raise, must, strictMust and assert raise;
\* every other exported operation returns normally
C17_AsClaimed == RaisedOnlyBy({"raise", "must", "strictMust", "assert"})

\* C17, amended: on well-formed inputs and with callbacks that do not raise,
\* only unwrap (of a Failure), raise, must, strictMust, assert and assertNever
\* raise; every other exported operation returns normally, map, chain and
\* recover among them
C17_OnlyTheseRaise == RaisedOnlyBy({"raise", "must", "strictMust", "assert", "assertNever"})

\* assertNever(42) raised an Error, "Unhandled value: 42"
C17_Witness ==
    /\ last.op = "assertNever"
    /\ last.args = <<Num(42)>>
    /\ last.out = Throw(Error("Unhandled value: 42"))

\* recover(failure("x"), fn) returned normally
C17_WitnessRecover ==
    /\ last.op = "recover"
    /\ heap[last.args[1].n] = FailureOf(Str("x"))
    /\ last.out.kind = "return"


----------------------------------------------------------------------------
(* Claims about safely and attempt, under SpecSafe                         *)

\* the promise the callable returned, or the promise given as x
Underlying ==
    IF last.fns # <<>> THEN last.fns[1].val ELSE last.args[1]

\* the call was given a promise, or a callable that returned one
OnPromise ==
    IF last.fns # <<>>
    THEN last.fns[1].mode = "return" /\ last.fns[1].val \in Promises(heap)
    ELSE TRUE

\* the callable, if any, was invoked exactly once
InvokedOnce ==
    last.calls = IF last.fns # <<>> THEN <<Call("fn", <<>>)>> ELSE <<>>

\* C21, the synchronous half and the settled promise: safely(x, d) returns
\* normally; v for a callable returning a non-promise v; d for a callable that
\* throws; otherwise a new promise that is never rejected, fulfilled with the
\* value the underlying promise resolved with, or with d when it rejected
C21_SafelyState ==
    last.op = "safely" =>
        LET d == last.args[2]
        IN  /\ last.out.kind = "return"
            /\ InvokedOnce
            /\ (last.fns # <<>> /\ last.fns[1].mode = "throw") => last.out = Return(d)
            /\ (last.fns # <<>> /\ ~OnPromise /\ last.fns[1].mode = "return") =>
                  last.out = Return(last.fns[1].val)
            /\ OnPromise =>
                  /\ last.out.val \in Promises(heap) \ {Underlying}
                  /\ Returned.state # "rejected"
                  /\ Returned.state = "fulfilled" =>
                        /\ heap[Underlying.n].state # "pending"
                        /\ heap[Underlying.n].state = "fulfilled" =>
                              Returned.value = heap[Underlying.n].value
                        /\ heap[Underlying.n].state = "rejected" => Returned.value = d

\* the underlying promise of a safely call has settled
C21_Settled ==
    last.op = "safely" /\ OnPromise /\ heap[Underlying.n].state # "pending"

\* C21: safely(x, d) never raises and never yields a rejecting promise: a
\* callable returning a non-promise v gives v, a callable that throws gives d,
\* a callable returning a promise, or a promise x, gives a promise that
\* resolves to the resolved value, or to d when that promise rejects
C21_Safely ==
    /\ []C21_SafelyState
    /\ C21_Settled ~> (C21_Settled /\ Returned.state = "fulfilled")

\* safely(p, 0) resolved to 0 after p rejected with "boom"
C21_Witness ==
    /\ last.op = "safely"
    /\ last.fns = <<>>
    /\ last.args[2] = Num(0)
    /\ heap[last.args[1].n] = Promise("rejected", Str("boom"), 0)
    /\ Returned = Promise("fulfilled", Num(0), 0)

\* safely(() => { throw "boom" }, 0) returned 0
C21_WitnessThrow ==
    /\ last.op = "safely"
    /\ last.fns = <<Stub("throw", Str("boom"))>>
    /\ last.out = Return(Num(0))

\* C22, the synchronous half and the settled promise: attempt(x) returns
\* normally; Success(v) for a callable returning a non-promise v; Failure(e)
\* for a callable throwing e; otherwise a promise that is never rejected,
\* fulfilled with Success(value) or Failure(reason) of the underlying promise
C22_AttemptState ==
    last.op = "attempt" =>
        /\ last.out.kind = "return"
        /\ InvokedOnce
        /\ (last.fns # <<>> /\ last.fns[1].mode = "throw") =>
              heap[last.out.val.n] = FailureOf(last.fns[1].val)
        /\ (last.fns # <<>> /\ ~OnPromise /\ last.fns[1].mode = "return") =>
              heap[last.out.val.n] = SuccessOf(last.fns[1].val)
        /\ OnPromise =>
              /\ last.out.val \in Promises(heap) \ {Underlying}
              /\ Returned.state # "rejected"
              /\ Returned.state = "fulfilled" => Wraps(Returned, Underlying)

\* the underlying promise of an attempt call has settled
C22_Settled ==
    last.op = "attempt" /\ OnPromise /\ heap[Underlying.n].state # "pending"

\* C22: attempt(x) never raises and never yields a rejecting promise: a
\* callable returning a non-promise v gives Success(v), a callable throwing e
\* gives Failure(e), a callable returning a promise, or a promise x, gives a
\* promise resolving to Success(resolved value) or Failure(rejection reason)
C22_Attempt ==
    /\ []C22_AttemptState
    /\ C22_Settled ~> (C22_Settled /\ Returned.state = "fulfilled")

\* attempt(() => p) resolved to Failure("boom") after p rejected with "boom"
C22_Witness ==
    /\ last.op = "attempt"
    /\ last.fns # <<>>
    /\ OnPromise
    /\ heap[Underlying.n] = Promise("rejected", Str("boom"), 0)
    /\ Returned.state = "fulfilled"
    /\ heap[Returned.value.n] = FailureOf(Str("boom"))

\* attempt(() => { throw "boom" }) returned Failure("boom")
C22_WitnessThrow ==
    /\ last.op = "attempt"
    /\ last.fns = <<Stub("throw", Str("boom"))>>
    /\ heap[last.out.val.n] = FailureOf(Str("boom"))


----------------------------------------------------------------------------
(* Claims about Maybe, under SpecMaybe                                     *)

\* the Maybe the last call was given
Given == last.args[1]

\* C23: Maybe is a Result: some(v) is what success(v) builds, none is a
\* Failure whose error is null, isSome and isNone agree with isSuccess and
\* isFailure on every Maybe, and the Result operations apply unchanged:
\* unwrap(some(v)) = v, unwrap(none) raises, unwrapOr(none, d) = d,
\* unwrapOrElse(none, fn) calls fn with null, map(none, f) and chain(none, f)
\* are none, f not invoked
C23_MaybeIsResult ==
    /\ heap[none.n] = FailureOf(Null)
    /\ \A m \in Maybes(heap) :
          /\ isSome(heap, m) = isSuccess(heap, m)
          /\ isNone(heap, m) = isFailure(heap, m)
          /\ Holds(isSome(heap, m)) # Holds(isNone(heap, m))
    /\ last.op = "some" =>
          /\ Fresh(last.out)
          /\ heap[last.out.val.n] = SuccessOf(Given)
          /\ last.out.val \in Maybes(heap)
    /\ last.op = "isSome" => last.out = isSuccess(heap, Given)
    /\ last.op = "isNone" => last.out = isFailure(heap, Given)
    /\ (last.op = "unwrap" /\ Holds(isSome(heap, Given))) =>
          last.out = Return(heap[Given.n].value)
    /\ (last.op = "unwrap" /\ Given = none) => last.out = Throw(Null)
    /\ (last.op = "unwrapOr" /\ Given = none) => last.out = Return(last.args[2])
    /\ (last.op = "unwrapOrElse" /\ Given = none) =>
          /\ last.calls = <<Call("fn", <<Null>>)>>
          /\ last.out = Invoke(last.fns[1])
    /\ (last.op \in {"map", "chain"} /\ Given = none) =>
          /\ last.calls = <<>>
          /\ last.out = Return(none)

\* unwrapOrElse(none, fn) called fn with null and returned its 7
C23_Witness ==
    /\ last.op = "unwrapOrElse"
    /\ Given = none
    /\ last.calls = <<Call("fn", <<Null>>)>>
    /\ last.out = Return(Num(7))

\* isSome(some(undefined)) is true
C23_WitnessSome ==
    /\ last.op = "isSome"
    /\ heap[Given.n] = SuccessOf(Undefined)
    /\ Holds(last.out)

\* chain(none, f) returned none
C23_WitnessChain ==
    /\ last.op = "chain"
    /\ Given = none
    /\ last.out = Return(none)


----------------------------------------------------------------------------
(* Claims about the error utilities, under SpecErrors                      *)

\* the message of the Error a call raises: the one given, or the default
Message(default) ==
    IF Len(last.args) > 1 /\ last.args[2] # Undefined THEN last.args[2].s ELSE default

\* C24: must(value, msg) raises an Error (message msg, by default "Value is
\* undefined or null") exactly when value is null or undefined and otherwise
\* returns value unchanged, 0, false and "" included; strictMust(value, msg)
\* raises (by default "Value is undefined") exactly when value is undefined and
\* returns every other value unchanged, null included
C24_Must ==
    /\ last.op = "must" =>
          IF last.args[1] \in {Null, Undefined}
          THEN last.out = Throw(Error(Message("Value is undefined or null")))
          ELSE last.out = Return(last.args[1])
    /\ last.op = "strictMust" =>
          IF last.args[1] = Undefined
          THEN last.out = Throw(Error(Message("Value is undefined")))
          ELSE last.out = Return(last.args[1])

\* must(0) returned 0
C24_Witness ==
    /\ last.op = "must"
    /\ last.args = <<Num(0)>>
    /\ last.out = Return(Num(0))

\* must(null, "m") raised an Error with message "m"
C24_WitnessRaise ==
    /\ last.op = "must"
    /\ last.args = <<Null, Str("m")>>
    /\ last.out = Throw(Error("m"))

\* strictMust(null) returned null
C24_WitnessStrict ==
    /\ last.op = "strictMust"
    /\ last.args = <<Null>>
    /\ last.out = Return(Null)


----------------------------------------------------------------------------
(* Claims about sequences of calls, under SpecFrame                        *)

\* the objects that are no promise: the results, the arrays, none and pending
Values(h) == {i \in 1..Len(h) : h[i].kind # "promise"}

\* C25: no library operation mutates a value it is given or shares: over any
\* sequence of calls to the combinators, the adapters, all / any and the
\* matchers, every Result constructed before, every array given to all / any,
\* and the shared none and pending keep their variant and payload
C25_NoMutation ==
    [][\A i \in Values(heap) : i <= Len(heap') /\ heap'[i] = heap[i]]_vars

\* none and pending are what the module built, whatever has been called
C25_Singletons ==
    /\ heap[none.n] = FailureOf(Null)
    /\ heap[pending.n] = ModuleHeap[pending.n]

\* after map(success(42), fn) returned a new Success(7) in a second call, the
\* Success given still holds 42 and the array given to all / any before still
\* holds its results
C25_Witness ==
    /\ last.op = "map"
    /\ allocs > 1
    /\ heap[last.args[1].n] = SuccessOf(Num(42))
    /\ last.out.kind = "return"
    /\ heap[last.out.val.n] = SuccessOf(Num(7))
    /\ heap[Len(PoolHeap) + 2] = Array(<<Ref(3), Ref(4)>>)


----------------------------------------------------------------------------
(* Claims about repeated and late callbacks, under SpecBridge              *)

\* fn has invoked its callback more than once, the first time before any throw
C26_Repeated ==
    /\ last.op = "fromNodeCallback"
    /\ Len(last.calls) > 1
    /\ ~ThrewFirst(last.fns[1])

\* the promise holds the Result of the first invocation, and one more
\* invocation of the callback, with any arguments, would return normally
C26_FirstWins ==
    C26_Repeated =>
        /\ Returned.state = "fulfilled"
        /\ Bridged(Returned.value, last.calls[1].args)
        /\ \A f \in Resolvers(heap), pair \in Pairs :
              lifted(heap, f, pair[1], pair[2]).out = Return(Undefined)

\* a step leaves a promise fromNodeCallback returned, once settled, as it is
C26_Inert ==
    (last.op = "fromNodeCallback" /\ Returned.state # "pending") =>
        /\ UNCHANGED last.out
        /\ heap'[last.out.val.n] = Returned

\* C26: when fn invokes the callback fromNodeCallback handed to it more than
\* once, before it returns or later, the returned promise is resolved with the
\* Result of the first invocation only; later invocations neither change the
\* settled value nor raise
C26_MultipleCallbacks == []C26_FirstWins /\ [][C26_Inert]_vars

\* fn passed (null, 42) and then ("x", 42): the promise holds Success(42)
C26_Witness ==
    /\ C26_Repeated
    /\ last.calls[1].args = <<Null, Num(42)>>
    /\ last.calls[2].args = <<Str("x"), Num(42)>>
    /\ Returned.state = "fulfilled"
    /\ heap[Returned.value.n] = SuccessOf(Num(42))

\* the same, the second invocation made after fn had returned
C26_WitnessLate ==
    /\ C26_Witness
    /\ Len(last.fns[1].sync) = 1


\* fromPromise(p): the returned promise is pending as long as p is
C27_PendingPromise ==
    (last.op = "fromPromise" /\ heap[last.args[1].n].state = "pending") =>
        Returned.state = "pending"

\* fromNodeCallback(fn), fn not throwing: the returned promise is pending as
\* long as the callback has not been invoked, and resolved as soon as it has
C27_PendingCallback ==
    (last.op = "fromNodeCallback" /\ last.fns[1].mode = "return") =>
        IF last.calls = <<>> THEN Returned.state = "pending"
        ELSE Returned.state = "fulfilled"

\* the promise given to fromPromise has settled
C27_Settled == last.op = "fromPromise" /\ heap[last.args[1].n].state # "pending"

\* C27: the promise fromPromise / fromNodeCallback returned stays pending until
\* the underlying promise settles / the callback is first invoked, and then
\* eventually resolves; while the underlying operation has not settled (and fn
\* has not thrown) it does not settle: there is no timeout
C27_PendingUntilSettled ==
    /\ [](C27_PendingPromise /\ C27_PendingCallback)
    /\ C27_Settled ~> (C27_Settled /\ Returned.state = "fulfilled")

\* fromNodeCallback(fn): fn returned without invoking the callback, which was
\* invoked later; the promise is resolved
C27_Witness ==
    /\ last.op = "fromNodeCallback"
    /\ last.fns[1] = Script(<<>>, "return", Str("boom"))
    /\ Len(last.calls) = 1
    /\ Returned.state = "fulfilled"

\* fromPromise(p) was called while p was pending; p has settled since and the
\* returned promise is still pending, its job not yet run
C27_WitnessWaiting ==
    /\ C27_Settled
    /\ Returned.state = "pending"


----------------------------------------------------------------------------
(* Claims about compositions, under SpecClosure                            *)

\* exactly one of isSuccess / isFailure, and not pending
WellFormed(r) ==
    /\ Holds(isSuccess(heap, r)) # Holds(isFailure(heap, r))
    /\ ~Holds(isPending(heap, r))

\* the operations of a composition; each returns a Result when it returns
Builders ==
    {"success", "failure", "some", "fromTry", "fromNullable", "fromOutcome", "attempt",
     "map", "recover", "chain", "all", "any"}

\* C28: well-formedness is closed under the library: every Result obtained by
\* a composition of success, failure, some, none, fromTry, fromNullable,
\* fromOutcome, attempt on a callable, map, recover, all, any, and chain with
\* callbacks returning Results built that way, satisfies exactly one of
\* isSuccess / isFailure and is not pending for isPending
C28_Closed ==
    /\ WellFormed(none)
    /\ \A r \in Results(heap) : WellFormed(r)
    /\ (last.op \in Builders /\ last.out.kind = "return") =>
          /\ last.out.val \in Results(heap)
          /\ WellFormed(last.out.val)

\* a Result of the second call of a composition: map over a Result a
\* previous call had built, whose payload is the pending marker
C28_Witness ==
    /\ last.op = "map"
    /\ last.args[1].n > Len(ClosureHeap)
    /\ Get(heap, last.args[1], "value") = pending
    /\ last.out.kind = "return"
    /\ last.out.val # last.args[1]
    /\ WellFormed(last.out.val)


----------------------------------------------------------------------------
(* Claims about the variant all and any return, under SpecCollections      *)

\* the call returned a new Result whose payload is a new empty array
OfEmptyArray(field) ==
    /\ last.out = Return(Ref(Len(heap)))
    /\ Get(heap, last.out.val, field) = Ref(Len(heap) - 1)
    /\ heap[Len(heap) - 1] = Array(<<>>)
    /\ Get(heap, last.out.val, field) # last.args[1]

\* C29: all([]) returns a Success wrapping an empty sequence and any([]) a
\* Failure wrapping an empty sequence; all(rs) is a Success iff every element
\* of rs is a Success, any(rs) is a Failure iff every element is a Failure
C29_Variants ==
    /\ last.op = "all" =>
          /\ last.out.kind = "return"
          /\ Holds(isSuccess(heap, last.out.val)) <=> Failures = {}
          /\ Holds(isFailure(heap, last.out.val)) <=> Failures # {}
          /\ Items = <<>> => (OfEmptyArray("value") /\ Holds(isSuccess(heap, last.out.val)))
    /\ last.op = "any" =>
          /\ last.out.kind = "return"
          /\ Holds(isFailure(heap, last.out.val)) <=> Successes = {}
          /\ Holds(isSuccess(heap, last.out.val)) <=> Successes # {}
          /\ Items = <<>> => (OfEmptyArray("error") /\ Holds(isFailure(heap, last.out.val)))

\* any([]) returned a Failure of a new empty array
C29_Witness ==
    /\ last.op = "any"
    /\ Items = <<>>
    /\ Holds(isFailure(heap, last.out.val))
    /\ heap[Get(heap, last.out.val, "error").n] = Array(<<>>)

\* all([]) returned a Success of a new empty array
C29_WitnessAll ==
    /\ last.op = "all"
    /\ Items = <<>>
    /\ Holds(isSuccess(heap, last.out.val))
    /\ heap[Get(heap, last.out.val, "value").n] = Array(<<>>)


----------------------------------------------------------------------------
(* Claims about callbacks that raise, under SpecThrowing                   *)

\* the callback the last call invoked, if it invoked one
Invoked ==
    IF last.op \in {"match", "matchAsync"}
    THEN [pending |-> last.fns[1],
          success |-> last.fns[Len(last.fns) - 1],
          failure |-> last.fns[Len(last.fns)]][last.calls[1].fn]
    ELSE last.fns[1]

\* the last call invoked a callback, which raised
Raised == last.calls # <<>> /\ Invoked.mode = "throw"

\* map, chain, recover, unwrapOrElse and match raise what their callback
\* raised, and build nothing
C30_Propagated ==
    (last.op \in {"map", "chain", "recover", "unwrapOrElse", "match"} /\ Raised) =>
        /\ last.out = Throw(Invoked.val)
        /\ allocs = 0

\* fromTry, attempt and safely return a Failure of, or the default for,
\* what the callable raised; fromTryAsync a promise resolved with a Failure of it
C30_Converted ==
    /\ (last.op \in {"fromTry", "attempt"} /\ last.fns # <<>> /\ Raised) =>
          /\ last.out.kind = "return"
          /\ heap[last.out.val.n] = FailureOf(Invoked.val)
    /\ (last.op = "safely" /\ last.fns # <<>> /\ Raised) => last.out = Return(last.args[2])
    /\ (last.op = "fromTryAsync" /\ Raised) =>
          /\ last.out.kind = "return"
          /\ Returned.state = "fulfilled"
          /\ heap[Returned.value.n] = FailureOf(Invoked.val)

\* fromPromise, and attempt and safely on a promise: a rejection gives a
\* Failure of the reason, or the default, never a rejection or a raise
C30_ConvertedRejection ==
    (last.op \in {"fromPromise", "attempt", "safely"} /\ last.fns = <<>>) =>
        /\ last.out.kind = "return"
        /\ Returned.state # "rejected"
        /\ (Returned.state = "fulfilled" /\ heap[last.args[1].n].state = "rejected") =>
              IF last.op = "safely" THEN Returned.value = last.args[2]
              ELSE heap[Returned.value.n] = FailureOf(heap[last.args[1].n].value)

\* no other operation converts: the callback liftOutcome returned raises what
\* cb raised, and matchAsync rejects its promise with what the handler raised
C30_NotConverted ==
    /\ (last.op = "lifted" /\ Raised) => last.out = Throw(Invoked.val)
    /\ (last.op = "matchAsync" /\ Raised) =>
          /\ last.out.kind = "return"
          /\ Returned = Promise("rejected", Invoked.val, 0)

\* C30: the synchronous combinators do not catch what user callbacks raise:
\* when the callback given to map, chain, recover, unwrapOrElse or match is
\* invoked and raises e, the combinator raises e to its caller and returns no
\* Failure; only fromTry, fromTryAsync, fromPromise, safely and attempt turn a
\* raised value into a Failure or a default
C30_CallbackExceptions ==
    /\ C30_Propagated
    /\ C30_Converted
    /\ C30_ConvertedRejection
    /\ C30_NotConverted

\* recover(failure("x"), fn) raised undefined, which fn had raised
C30_Witness ==
    /\ last.op = "recover"
    /\ heap[last.args[1].n] = FailureOf(Str("x"))
    /\ last.fns = <<Stub("throw", Undefined)>>
    /\ last.out = Throw(Undefined)

\* map(success(42), fn) raised "boom", which fn had raised
C30_WitnessMap ==
    /\ last.op = "map"
    /\ last.calls = <<Call("fn", <<Num(42)>>)>>
    /\ last.out = Throw(Str("boom"))

\* fromTryAsync(fn) resolved to Failure("boom"), fn having raised "boom"
C30_WitnessAsync ==
    /\ last.op = "fromTryAsync"
    /\ Raised
    /\ heap[Returned.value.n] = FailureOf(Str("boom"))

====
